---- MODULE Spec2Model ----
(***************************************************************************)
(* Tracearr: the Plex live event stream client (PlexEventSource), the      *)
(* Tautulli history import (TautulliService.importHistory) and the BullMQ   *)
(* import queue around it (enqueueImport, the worker, its failed handler).  *)
(*                                                                         *)
(* Eight specifications share the module:                                  *)
(*   Spec        one PlexEventSource instance and its environment          *)
(*   DelaySpec   the delays of successive reconnect attempts               *)
(*   QueueSpec   the import queue, its single worker and its callers       *)
(*   FairQueueSpec  QueueSpec under a fair worker                          *)
(*   ImportSpec  importHistory's record loop against the sessions table    *)
(*   WorkerSpec  one job of the queue run by processImportJob              *)
(*   PurgeSpec   WorkerSpec while Tautulli's history loses records         *)
(*   CallbackSpec  the progress callback of processImportJob, called       *)
(*               directly on an active job                                 *)
(***************************************************************************)
EXTENDS Integers, Sequences, FiniteSets, TLC

(***************************************************************************)
(* Bounds of the model.                                                    *)
(***************************************************************************)
\* reconnect timers that are still pending although this.reconnectTimer no
\* longer refers to them
MaxOrphans == 1
\* connect() calls suspended together at the lazy import of 'eventsource'
MaxCalls == 2
\* events of one received chunk still to be dispatched after the first
MaxInflight == 1
\* notifications in a wrapped PlaySessionStateNotification array
MaxBatch == 2

\* SSE_CONFIG.MAX_RETRIES of @tracearr/shared, scaled down
MAX_RETRIES == 2

VARIABLES
    this,              \* the PlexEventSource instance: its fields, and `out`,
                       \* what the handler that ran last emitted and did
    EventSourceClass,  \* module-level: TRUE once 'eventsource' is loaded
    pendingConnects,   \* connect() calls suspended at `await import(...)`
    inflight,          \* events of the current chunk not yet dispatched
    batch,             \* history: what the suspended connect() calls did
    dispatched,        \* history: the message the step called handleMessage with
    lastOp,            \* history: the operation that ran last
    queue,             \* the 'imports' queue: job id -> job, in order of addition
    dlq,               \* the 'imports-dlq' queue, in order of addition
    callers,           \* the callers of enqueueImport and where each call is
    outcome,           \* what the enqueueImport step that ran last returned or threw
    channel,           \* what the step that ran last published on 'import:progress'
    sessions,          \* the sessions table
    upstream,          \* Tautulli's history, newest first
    imp,               \* the running importHistory call
    jobProgress        \* history: the record counters of the snapshot an import
                       \* run or the job running it published last

sseVars    == <<this, EventSourceClass, pendingConnects, inflight, batch, dispatched>>
queueVars  == <<queue, dlq, callers, outcome>>
importVars == <<sessions, upstream, imp, jobProgress>>
vars       == <<this, EventSourceClass, pendingConnects, inflight, batch, dispatched, lastOp,
                queue, dlq, callers, outcome, channel, sessions, upstream, imp,
                jobProgress>>

(***************************************************************************)
(* PlexEventSource                                                         *)
(***************************************************************************)
ConnectionStates == {"disconnected", "connecting", "connected", "reconnecting", "fallback"}

\* notification.state: the four the switch knows, and one it does not
NotificationStates == {"playing", "paused", "stopped", "buffering", "progress"}

PlexPlaySessionNotification == [sessionKey : {"7"}, state : NotificationStates]

\* a timer handle: null, a timer that is pending, or one that fired or was cleared
Handles == {"null", "armed", "dead"}

\* the fields of a new instance (constructor and field initialisers)
NewPlexEventSource(urlOk) ==
    [ urlOk             |-> urlOk,
      eventSource       |-> "null",
      state             |-> "disconnected",
      reconnectAttempts |-> 0,
      reconnectTimer    |-> "null",
      reconnectOrphans  |-> 0,
      heartbeatTimer    |-> "null",
      lastEventTime     |-> "null",
      connectedAt       |-> "null",
      lastError         |-> "null",
      out               |-> <<>> ]

\* no notification: the payload slot of an entry that carries none
NoNotification == [sessionKey |-> "", state |-> ""]

\* EventEmitter.emit(name, arg) for the connection events, and the transport and
\* timer calls a handler makes, recorded in the order made
emit(self, name, arg) ==
    [self EXCEPT !.out = Append(@, [ev |-> name, arg |-> arg, payload |-> NoNotification])]

\* EventEmitter.emit(name, notification) for the session events
emitSession(self, name, notification) ==
    [self EXCEPT !.out = Append(@, [ev |-> name, arg |-> "", payload |-> notification])]

\* number of entries of a log with event name `name`
CountEv(log, name) == Len(SelectSeq(log, LAMBDA e : e.ev = name))

\* number of 'connection:state' emissions of a log that carry `state`
CountState(log, state) ==
    Len(SelectSeq(log, LAMBDA e : e.ev = "connection:state" /\ e.arg = state))

\* number of reconnect timers armed and neither fired nor cancelled
ReconnectPending(self) ==
    (IF self.reconnectTimer = "armed" THEN 1 ELSE 0) + self.reconnectOrphans

\* a setState that notifies on every call
setState_alwaysEmits(self, state) ==
    emit([self EXCEPT !.state = state], "connection:state", state)

setState(self, state) ==
    IF self.state # state
    THEN emit([self EXCEPT !.state = state], "connection:state", state)
    ELSE self

clearTimers(self) ==
    [self EXCEPT !.reconnectTimer = "null", !.heartbeatTimer = "null"]

\* eventSource.close() and the release of the object
closeEventSource(self) ==
    IF self.eventSource # "null"
    THEN emit([self EXCEPT !.eventSource = "null"], "close", "")
    ELSE self

resetHeartbeatMonitor(self) ==
    [self EXCEPT !.heartbeatTimer = "armed"]

startHeartbeatMonitor(self) == resetHeartbeatMonitor(self)

scheduleReconnect(self) ==
    IF self.reconnectAttempts >= MAX_RETRIES
    THEN setState(self, "fallback")
    ELSE LET s1 == setState(self, "reconnecting")
             \* the handle is overwritten: a timer it referred to stays pending
             s2 == [s1 EXCEPT !.reconnectAttempts = @ + 1,
                              !.reconnectOrphans =
                                  IF s1.reconnectTimer = "armed" THEN @ + 1 ELSE @,
                              !.reconnectTimer = "armed"]
         IN  emit(s2, "setTimeout", "reconnect")

\* an error handler that leaves the transport object in place
handleError_keepsTransport(self, message) ==
    LET s1 == emit([self EXCEPT !.lastError = message], "connection:error", message)
    IN  scheduleReconnect(s1)

handleError(self, message) ==
    LET s1 == emit([self EXCEPT !.lastError = message], "connection:error", message)
    IN  scheduleReconnect(closeEventSource(s1))

\* an open handler that keeps the attempts counted so far
onopen_keepsAttempts(self) ==
    LET s1 == setState(self, "connected")
    IN  startHeartbeatMonitor([s1 EXCEPT !.eventSource = "OPEN",
                                         !.connectedAt = "set",
                                         !.lastError = "null"])

onopen(self) ==
    LET s1 == setState(self, "connected")
    IN  startHeartbeatMonitor([s1 EXCEPT !.eventSource = "OPEN",
                                         !.connectedAt = "set",
                                         !.reconnectAttempts = 0,
                                         !.lastError = "null"])

\* connect() that returns early only when already connected
connect_onlyConnected(self) ==
    IF self.state = "connected"
    THEN self
    ELSE LET s1 == clearTimers(setState(self, "connecting"))
         IN  IF self.urlOk
             THEN emit([s1 EXCEPT !.eventSource = "CONNECTING"], "new EventSource", "")
             ELSE handleError(s1, "Invalid URL")

\* connect() once EventSourceClass is loaded: from the state check to the end
connect(self) ==
    IF self.state \in {"connected", "connecting"}
    THEN self
    ELSE LET s1 == clearTimers(setState(self, "connecting"))
         IN  IF self.urlOk
             THEN emit([s1 EXCEPT !.eventSource = "CONNECTING"], "new EventSource", "")
             ELSE handleError(s1, "Invalid URL")

\* a disconnect() that also gives the retry budget back
disconnect_resetsAttempts(self) ==
    LET s1 == closeEventSource(clearTimers(self))
    IN  [setState(s1, "disconnected") EXCEPT !.connectedAt = "null",
                                             !.reconnectAttempts = 0]

disconnect(self) ==
    LET s1 == closeEventSource(clearTimers(self))
    IN  [setState(s1, "disconnected") EXCEPT !.connectedAt = "null"]

\* event.data of an inbound message: '' ("empty"), text JSON.parse rejects
\* ("garbage"), or the text of an object with an optional top-level
\* PlaySessionStateNotification (direct: <<>> or <<n>>) and an optional
\* NotificationContainer {type, PlaySessionStateNotification?: n | [n, ...]}
MessageText(kind, direct, hasContainer, ctype, isArray, pssn) ==
    [ kind |-> kind, direct |-> direct, hasContainer |-> hasContainer,
      ctype |-> ctype, isArray |-> isArray, pssn |-> pssn ]

NotificationSeqs == UNION { [1..n -> PlexPlaySessionNotification] : n \in 0..MaxBatch }

ContainerTypes == {"playing", "timeline"}

EventSourceMessages ==
    {MessageText("empty", <<>>, FALSE, "", FALSE, <<>>),
     MessageText("garbage", <<>>, FALSE, "", FALSE, <<>>),
     \* an object with neither key
     MessageText("json", <<>>, FALSE, "", FALSE, <<>>)}
    \cup {MessageText("json", <<n>>, FALSE, "", FALSE, <<>>) :
              n \in PlexPlaySessionNotification}
    \cup {MessageText("json", <<>>, TRUE, t, FALSE, <<n>>) :
              t \in ContainerTypes, n \in PlexPlaySessionNotification}
    \cup {MessageText("json", <<>>, TRUE, t, TRUE, ns) :
              t \in ContainerTypes, ns \in NotificationSeqs}
    \* a container without PlaySessionStateNotification
    \cup {MessageText("json", <<>>, TRUE, t, FALSE, <<>>) : t \in ContainerTypes}
    \* both keys: the direct branch is skipped
    \cup {MessageText("json", <<d>>, TRUE, "playing", FALSE, <<n>>) :
              d \in {[sessionKey |-> "7", state |-> "paused"]},
              n \in {[sessionKey |-> "7", state |-> "stopped"]}}

\* JSON.parse(event.data): the parsed object, or a SyntaxError
JSONparse(data) ==
    IF data.kind = "json"
    THEN [ok |-> TRUE, direct |-> data.direct, hasContainer |-> data.hasContainer,
          ctype |-> data.ctype, isArray |-> data.isArray, pssn |-> data.pssn]
    ELSE [ok |-> FALSE, direct |-> <<>>, hasContainer |-> FALSE,
          ctype |-> "", isArray |-> FALSE, pssn |-> <<>>]

\* a switch without the 'buffering' case
handlePlaySessionNotification_noBuffering(self, notification, eventType) ==
    CASE notification.state = "playing"   -> emitSession(self, "session:playing", notification)
      [] notification.state = "paused"    -> emitSession(self, "session:paused", notification)
      [] notification.state = "stopped"   -> emitSession(self, "session:stopped", notification)
      [] OTHER -> self

handlePlaySessionNotification(self, notification, eventType) ==
    CASE notification.state = "playing"   -> emitSession(self, "session:playing", notification)
      [] notification.state = "paused"    -> emitSession(self, "session:paused", notification)
      [] notification.state = "stopped"   -> emitSession(self, "session:stopped", notification)
      [] notification.state = "buffering" -> emitSession(self, "session:playing", notification)
      [] OTHER -> self

\* a loop that trusts container.type: only 'playing' containers are handled
RECURSIVE handleNotifications_byContainerType(_, _, _)
handleNotifications_byContainerType(self, notifications, eventType) ==
    IF notifications = <<>> \/ eventType # "playing"
    THEN self
    ELSE handleNotifications_byContainerType(
             handlePlaySessionNotification(self, Head(notifications), eventType),
             Tail(notifications), eventType)

\* the for loop over the container's notifications
RECURSIVE handleNotifications(_, _, _)
handleNotifications(self, notifications, eventType) ==
    IF notifications = <<>>
    THEN self
    ELSE handleNotifications(
             handlePlaySessionNotification(self, Head(notifications), eventType),
             Tail(notifications), eventType)

\* a handler that treats a message it cannot parse as a connection error
handleMessage_parseErrorReconnects(self, event) ==
    LET s1 == resetHeartbeatMonitor([self EXCEPT !.lastEventTime = "set"])
        data == JSONparse(event)
    IN  IF event.kind = "empty" THEN s1
        ELSE IF ~data.ok THEN handleError(s1, "Parse error")
        ELSE IF data.direct # <<>> /\ ~data.hasContainer
             THEN handlePlaySessionNotification(s1, data.direct[1], "playing")
        ELSE IF data.hasContainer /\ (data.isArray \/ data.pssn # <<>>)
             THEN handleNotifications(s1, data.pssn, data.ctype)
        ELSE s1

handleMessage(self, event) ==
    LET s1 == resetHeartbeatMonitor([self EXCEPT !.lastEventTime = "set"])
        data == JSONparse(event)
    IN  IF event.kind = "empty" THEN s1
        ELSE IF ~data.ok THEN s1
        ELSE IF data.direct # <<>> /\ ~data.hasContainer
             THEN handlePlaySessionNotification(s1, data.direct[1], "playing")
        ELSE IF data.hasContainer /\ (data.isArray \/ data.pssn # <<>>)
             THEN handleNotifications(s1, data.pssn, data.ctype)
        ELSE s1

(***************************************************************************)
(* The instance in its environment: callers of connect() and disconnect(), *)
(* the transport's events and the two timers.                              *)
(***************************************************************************)
\* a handler starts with nothing emitted yet
Begin == [this EXCEPT !.out = <<>>]

\* the continuations of the suspended connect() calls run back to back, as
\* microtasks, before any timer or transport event
Draining == EventSourceClass /\ pendingConnects > 0

NoBatch == [calls |-> 0, connecting |-> 0, created |-> 0, failed |-> 0]

\* no message: the step called no handleMessage
NoEvent == MessageText("none", <<>>, FALSE, "", FALSE, <<>>)

\* the handler `op` ran and left the instance as `self`
Ran(op, self) ==
    /\ self.reconnectOrphans <= MaxOrphans
    /\ this' = self
    /\ lastOp' = op
    /\ dispatched' = NoEvent

\* onmessage ran handleMessage(event) and left the instance as `self`
Dispatched(event, self) ==
    /\ self.reconnectOrphans <= MaxOrphans
    /\ this' = self
    /\ lastOp' = "message"
    /\ dispatched' = event

\* connect() with the module loaded runs to its end; without, it suspends at
\* the import
ConnectCall ==
    /\ inflight = 0
    /\ ~Draining
    /\ IF EventSourceClass
       THEN /\ Ran("connect", connect(Begin))
            /\ UNCHANGED <<pendingConnects, batch>>
       ELSE /\ pendingConnects < MaxCalls
            /\ pendingConnects' = pendingConnects + 1
            /\ batch' = [batch EXCEPT !.calls = @ + 1]
            /\ Ran("connect:await", Begin)
    /\ UNCHANGED <<EventSourceClass, inflight>>
    /\ UNCHANGED <<queueVars, importVars, channel>>

\* a suspended connect() resumes: it sets EventSourceClass and goes on
ConnectResume ==
    /\ pendingConnects > 0
    /\ pendingConnects' = pendingConnects - 1
    /\ EventSourceClass' = TRUE
    /\ LET after == connect(Begin)
       IN  /\ Ran("connect", after)
           /\ batch' = [batch EXCEPT
                  !.connecting = @ + CountState(after.out, "connecting"),
                  !.created    = @ + CountEv(after.out, "new EventSource"),
                  !.failed     = @ + CountEv(after.out, "connection:error")]
    /\ UNCHANGED inflight
    /\ UNCHANGED <<queueVars, importVars, channel>>

\* disconnect(), by the owner or by a subscriber while a chunk is dispatched
Disconnect ==
    /\ ~Draining
    /\ Ran("disconnect", disconnect(Begin))
    /\ UNCHANGED <<EventSourceClass, pendingConnects, inflight, batch>>
    /\ UNCHANGED <<queueVars, importVars, channel>>

\* the transport's open event
Open ==
    /\ inflight = 0
    /\ ~Draining
    /\ this.eventSource = "CONNECTING"
    /\ Ran("onopen", onopen(Begin))
    /\ UNCHANGED <<EventSourceClass, pendingConnects, inflight, batch>>
    /\ UNCHANGED <<queueVars, importVars, channel>>

\* the transport's error event
TransportError ==
    /\ inflight = 0
    /\ ~Draining
    /\ this.eventSource # "null"
    /\ Ran("onerror", handleError(Begin, "Connection error"))
    /\ UNCHANGED <<EventSourceClass, pendingConnects, inflight, batch>>
    /\ UNCHANGED <<queueVars, importVars, channel>>

\* a chunk arrives on the open transport: its first event is dispatched and
\* `more` events of it remain
Message ==
    /\ inflight = 0
    /\ ~Draining
    /\ this.eventSource = "OPEN"
    /\ \E event \in EventSourceMessages, more \in 0..MaxInflight :
          /\ Dispatched(event, handleMessage(Begin, event))
          /\ inflight' = more
    /\ UNCHANGED <<EventSourceClass, pendingConnects, batch>>
    /\ UNCHANGED <<queueVars, importVars, channel>>

\* the next event of the chunk is dispatched, also after a subscriber's
\* disconnect() closed the transport
DispatchNext ==
    /\ inflight > 0
    /\ \E event \in EventSourceMessages :
          Dispatched(event, handleMessage(Begin, event))
    /\ inflight' = inflight - 1
    /\ UNCHANGED <<EventSourceClass, pendingConnects, batch>>
    /\ UNCHANGED <<queueVars, importVars, channel>>

HeartbeatFire ==
    /\ inflight = 0
    /\ ~Draining
    /\ this.heartbeatTimer = "armed"
    /\ Ran("heartbeat",
           handleError([Begin EXCEPT !.heartbeatTimer = "dead"], "Heartbeat timeout"))
    /\ UNCHANGED <<EventSourceClass, pendingConnects, inflight, batch>>
    /\ UNCHANGED <<queueVars, importVars, channel>>

\* the timer this.reconnectTimer refers to fires
ReconnectFire ==
    /\ inflight = 0
    /\ ~Draining
    /\ this.reconnectTimer = "armed"
    /\ Ran("reconnect", connect([Begin EXCEPT !.reconnectTimer = "dead"]))
    /\ UNCHANGED <<EventSourceClass, pendingConnects, inflight, batch>>
    /\ UNCHANGED <<queueVars, importVars, channel>>

\* a pending timer the handle no longer refers to fires
ReconnectOrphanFire ==
    /\ inflight = 0
    /\ ~Draining
    /\ this.reconnectOrphans > 0
    /\ Ran("reconnect", connect([Begin EXCEPT !.reconnectOrphans = @ - 1]))
    /\ UNCHANGED <<EventSourceClass, pendingConnects, inflight, batch>>
    /\ UNCHANGED <<queueVars, importVars, channel>>

\* a JavaScript number, NaN or undefined
Num(n)    == [t |-> "number", v |-> n]
NaN       == [t |-> "NaN", v |-> 0]
Undefined == [t |-> "undefined", v |-> 0]

\* a + b of JavaScript: NaN as soon as an operand is undefined or NaN
JSAdd(a, b) ==
    IF a.t = "number" /\ b.t = "number" THEN Num(a.v + b.v) ELSE NaN

(***************************************************************************)
(* Initial states: the parts the other specifications leave alone.         *)
(***************************************************************************)
SSEIdle ==
    /\ this = NewPlexEventSource(TRUE)
    /\ EventSourceClass = FALSE
    /\ pendingConnects = 0
    /\ inflight = 0
    /\ batch = NoBatch
    /\ dispatched = NoEvent

QueueIdle ==
    /\ queue = <<>>
    /\ dlq = <<>>
    /\ callers = <<>>
    /\ outcome = [kind |-> "none", serverId |-> "", jobId |-> 0]
    /\ channel = <<>>

\* no result: importHistory has not returned in this step
NoResult == [kind |-> "none", success |-> FALSE, imported |-> 0, skipped |-> 0,
             errors |-> 0, message |-> <<>>]

\* the importer between runs
NotImporting ==
    [pc |-> "idle", serverId |-> "", total |-> 0, page |-> 0, records |-> <<>>,
     idx |-> 0, imported |-> 0, skipped |-> 0, errors |-> 0,
     progress |-> <<>>, path |-> "", result |-> NoResult,
     \* history: the `start` of each page request of the run, in order
     offsets |-> <<>>]

\* nothing published yet: no counter has a value
NoProgress ==
    [totalRecords |-> Undefined, processedRecords |-> Undefined,
     importedRecords |-> Undefined, updatedRecords |-> Undefined,
     skippedRecords |-> Undefined, errorRecords |-> Undefined]

ImportIdle ==
    /\ sessions = <<>>
    /\ upstream = <<>>
    /\ imp = NotImporting
    /\ jobProgress = NoProgress

Init ==
    /\ \E urlOk \in BOOLEAN : this = NewPlexEventSource(urlOk)
    \* another instance may have loaded the module already
    /\ EventSourceClass \in BOOLEAN
    /\ pendingConnects = 0
    /\ inflight = 0
    /\ batch = NoBatch
    /\ dispatched = NoEvent
    /\ lastOp = "new"
    /\ QueueIdle
    /\ ImportIdle

Next ==
    \/ ConnectCall
    \/ ConnectResume
    \/ Disconnect
    \/ Open
    \/ TransportError
    \/ Message
    \/ DispatchNext
    \/ HeartbeatFire
    \/ ReconnectFire
    \/ ReconnectOrphanFire

Spec == Init /\ [][Next]_vars

(***************************************************************************)
(* The reconnect delay: what scheduleReconnect computes for its timer,     *)
(* attempt after attempt.                                                  *)
(***************************************************************************)
\* the reconnect attempts the delay is computed for
MaxAttempt == 8
\* the values Math.random() takes: k / RandomSteps for k in 0..RandomSteps-1
RandomSteps == 100

\* SSE_CONFIG of @tracearr/shared
INITIAL_RETRY_DELAY_MS == 1000
RETRY_MULTIPLIER       == 2
MAX_RETRY_DELAY_MS     == 30000

\* Math.pow(base, exponent) for a whole exponent >= 0
RECURSIVE pow(_, _)
pow(base, exponent) ==
    IF exponent = 0 THEN 1 ELSE base * pow(base, exponent - 1)

\* Math.min(a, b)
min(a, b) == IF a <= b THEN a ELSE b

\* a base delay that is not clamped
baseDelay_unclamped(reconnectAttempts) ==
    INITIAL_RETRY_DELAY_MS * pow(RETRY_MULTIPLIER, reconnectAttempts - 1)

\* baseDelay of scheduleReconnect, from this.reconnectAttempts as incremented
baseDelay(reconnectAttempts) ==
    min(INITIAL_RETRY_DELAY_MS * pow(RETRY_MULTIPLIER, reconnectAttempts - 1),
        MAX_RETRY_DELAY_MS)

\* jitter = Math.random() * 1000 with Math.random() = k / RandomSteps, in ms
jitter(k) == (k * 1000) \div RandomSteps

\* the delay scheduleReconnect gives setTimeout, with its two terms
delay(reconnectAttempts, k) ==
    [baseDelay |-> baseDelay(reconnectAttempts),
     jitter    |-> jitter(k),
     delay     |-> baseDelay(reconnectAttempts) + jitter(k)]

\* scheduleReconnect below the retry limit: the state, the attempt counter and
\* the timer with its delay
ScheduleReconnect(k) ==
    /\ this.reconnectAttempts < MaxAttempt
    /\ LET s1 == setState(Begin, "reconnecting")
           s2 == [s1 EXCEPT !.reconnectAttempts = @ + 1, !.reconnectTimer = "armed"]
       IN  this' = emit(s2, "setTimeout", delay(s2.reconnectAttempts, k))
    /\ lastOp' = "scheduleReconnect"
    /\ UNCHANGED <<EventSourceClass, pendingConnects, inflight, batch, dispatched>>
    /\ UNCHANGED <<queueVars, importVars, channel>>

DelayInit ==
    /\ lastOp = "new"
    /\ SSEIdle
    /\ QueueIdle
    /\ ImportIdle

DelayNext == \E k \in 0..(RandomSteps - 1) : ScheduleReconnect(k)

DelaySpec == DelayInit /\ [][DelayNext]_vars

(***************************************************************************)
(* The import queue: enqueueImport, the worker of concurrency 1 and its     *)
(* 'failed' handler, over BullMQ's job states.                              *)
(***************************************************************************)
\* jobs ever added to the 'imports' queue
MaxJobs == 2
\* callers of enqueueImport that may be inside a call at the same time
MaxCallers == 2

\* defaultJobOptions.attempts
ATTEMPTS == 3

Servers == {"s1", "s2"}
Users   == {"u1", "u2"}
Callers == 1..MaxCallers

\* ImportJobData as enqueueImport builds it: no checkpoint
ImportJobData(serverId, userId) ==
    [type |-> "tautulli", serverId |-> serverId, userId |-> userId,
     checkpoint |-> "undefined"]

\* Queue.add(name, data) on the 'imports' queue: a new waiting job with the
\* next id and the queue's defaultJobOptions; lockMs adds up what extendLock
\* calls extended the job's lock by, progress is what updateProgress set last
add(q, name, data) ==
    Append(q, [id |-> Len(q) + 1, name |-> name, data |-> data,
               state |-> "waiting", attemptsMade |-> 0,
               opts |-> [attempts |-> ATTEMPTS], lockMs |-> 0, progress |-> 0])

\* Queue.getJobs(types)
getJobs(q, types) == SelectSeq(q, LAMBDA j : j.state \in types)

\* getActiveImportForServer without the delayed jobs
getActiveImportForServer_noDelayed(q, serverId) ==
    LET activeJobs == getJobs(q, {"active", "waiting"})
        existing   == SelectSeq(activeJobs, LAMBDA j : j.data.serverId = serverId)
    IN  IF existing = <<>> THEN 0 ELSE Head(existing).id

\* getActiveImportForServer: the id of a job in flight for the server, or 0 (null)
getActiveImportForServer(q, serverId) ==
    LET activeJobs == getJobs(q, {"active", "waiting", "delayed"})
        existing   == SelectSeq(activeJobs, LAMBDA j : j.data.serverId = serverId)
    IN  IF existing = <<>> THEN 0 ELSE Head(existing).id

\* the jobs in flight for a server
InFlight(q, serverId) ==
    {j \in 1..Len(q) : /\ q[j].state \in {"waiting", "active", "delayed"}
                       /\ q[j].data.serverId = serverId}

IdleCaller == [pc |-> "idle", serverId |-> "", userId |-> "", jobId |-> 0]

\* no enqueueImport call ended in the step
NoOutcome == [kind |-> "none", serverId |-> "", jobId |-> 0]

\* enqueueImport up to the outcome of `await getActiveImportForServer(serverId)`:
\* the call throws, or goes on to add the job
EnqueueCheck(c, serverId, userId) ==
    /\ callers[c].pc = "idle"
    /\ Len(queue) + Cardinality({d \in Callers : callers[d].pc = "adding"}) < MaxJobs
    /\ LET existingJobId == getActiveImportForServer(queue, serverId)
       IN  IF existingJobId # 0
           THEN /\ outcome' = [kind |-> "thrown", serverId |-> serverId,
                               jobId |-> existingJobId]
                /\ UNCHANGED callers
           ELSE /\ outcome' = NoOutcome
                /\ callers' = [callers EXCEPT ![c] =
                       [pc |-> "adding", serverId |-> serverId, userId |-> userId,
                        jobId |-> 0]]
    /\ channel' = <<>>
    /\ lastOp' = "enqueueImport"
    /\ UNCHANGED <<queue, dlq>>
    /\ UNCHANGED <<sseVars, importVars>>

\* enqueueImport from `await importQueue.add(...)` to its return
EnqueueAdd(c) ==
    /\ callers[c].pc = "adding"
    /\ queue' = add(queue, "tautulli-import",
                    ImportJobData(callers[c].serverId, callers[c].userId))
    /\ outcome' = [kind |-> "returned", serverId |-> callers[c].serverId,
                   jobId |-> Len(queue) + 1]
    /\ callers' = [callers EXCEPT ![c] = IdleCaller]
    /\ channel' = <<>>
    /\ lastOp' = "enqueueImport:add"
    /\ UNCHANGED dlq
    /\ UNCHANGED <<sseVars, importVars>>

\* Queue.getJob(jobId): the job, or <<>> when the queue holds none of that id
getJob(q, jobId) ==
    IF jobId \in 1..Len(q) /\ q[jobId].state # "removed" THEN <<q[jobId]>> ELSE <<>>

\* a cancelImport that also tries to remove active jobs
cancellable_alsoActive(state) == state \in {"waiting", "delayed", "active"}

\* cancelImport's test of the state it read
cancellable(state) == state \in {"waiting", "delayed"}

\* Job.remove(): BullMQ removes a job that no worker holds the lock of and
\* throws on one that is locked, that is, active
remove(q, jobId) ==
    IF jobId \in 1..Len(q) /\ q[jobId].state = "active"
    THEN [ok |-> FALSE, queue |-> q]
    ELSE [ok |-> TRUE, queue |-> [q EXCEPT ![jobId].state = "removed"]]

\* cancelImport up to the test of `await job.getState()`: it returns false,
\* or goes on to remove the job
CancelCheck(c, jobId) ==
    /\ callers[c].pc = "idle"
    /\ LET job == getJob(queue, jobId)
       IN  IF job # <<>> /\ cancellable(job[1].state)
           THEN /\ outcome' = NoOutcome
                /\ callers' = [callers EXCEPT ![c] =
                       [pc |-> "removing", serverId |-> "", userId |-> "",
                        jobId |-> jobId]]
           ELSE /\ outcome' = [kind |-> "cancel:false", serverId |-> "",
                               jobId |-> jobId]
                /\ UNCHANGED callers
    /\ channel' = <<>>
    /\ lastOp' = "cancelImport"
    /\ UNCHANGED <<queue, dlq>>
    /\ UNCHANGED <<sseVars, importVars>>

\* cancelImport from `await job.remove()` to its end
CancelRemove(c) ==
    /\ callers[c].pc = "removing"
    /\ LET removed == remove(queue, callers[c].jobId)
       IN  /\ queue' = removed.queue
           /\ outcome' = [kind |-> IF removed.ok THEN "cancel:true" ELSE "cancel:thrown",
                          serverId |-> "", jobId |-> callers[c].jobId]
    /\ callers' = [callers EXCEPT ![c] = IdleCaller]
    /\ channel' = <<>>
    /\ lastOp' = "cancelImport:remove"
    /\ UNCHANGED dlq
    /\ UNCHANGED <<sseVars, importVars>>

\* a worker that takes a waiting job whatever it is running
WorkerTake_noLimit(j) ==
    /\ queue[j].state = "waiting"
    /\ queue' = [queue EXCEPT ![j].state = "active"]
    /\ channel' = <<>>
    /\ lastOp' = "worker:take"
    /\ outcome' = NoOutcome
    /\ UNCHANGED <<dlq, callers>>
    /\ UNCHANGED <<sseVars, importVars>>

\* the worker, of concurrency 1, takes a waiting job when it runs none
WorkerTake(j) ==
    /\ \A k \in 1..Len(queue) : queue[k].state # "active"
    /\ queue[j].state = "waiting"
    /\ queue' = [queue EXCEPT ![j].state = "active"]
    /\ channel' = <<>>
    /\ lastOp' = "worker:take"
    /\ outcome' = NoOutcome
    /\ UNCHANGED <<dlq, callers>>
    /\ UNCHANGED <<sseVars, importVars>>

\* what importHistory may return: its two refusals and a completed import
ImportResults ==
    {[success |-> FALSE, imported |-> 0, skipped |-> 0, errors |-> 0,
      message |-> m] : m \in {"Tautulli is not configured", "Failed to connect to Tautulli"}}
    \cup {[success |-> TRUE, imported |-> i, skipped |-> k, errors |-> e,
           message |-> "Import complete"] : i \in 0..1, k \in {1}, e \in 0..1}

\* the snapshot processImportJob publishes after importHistory returned;
\* importHistory's result carries no `updated`
FinalSnapshot(job, result) ==
    LET total == JSAdd(JSAdd(JSAdd(Num(result.imported), Undefined),
                             Num(result.skipped)), Num(result.errors))
    IN  [status |-> IF result.success THEN "complete" ELSE "error",
         totalRecords |-> total,
         processedRecords |-> total,
         importedRecords |-> Num(result.imported),
         updatedRecords |-> Undefined,
         skippedRecords |-> Num(result.skipped),
         errorRecords |-> Num(result.errors),
         currentPage |-> Num(0),
         totalPages |-> Num(0),
         message |-> <<result.message>>,
         jobId |-> job.id]

\* the snapshot the 'failed' handler publishes
FailureSnapshot(job, error) ==
    [status |-> "error",
     totalRecords |-> Num(0),
     processedRecords |-> Num(0),
     importedRecords |-> Num(0),
     updatedRecords |-> Num(0),
     skippedRecords |-> Num(0),
     errorRecords |-> Num(0),
     currentPage |-> Num(0),
     totalPages |-> Num(0),
     message |-> <<"Import failed: ", IF error = "" THEN "Unknown error" ELSE error>>,
     jobId |-> job.id]

\* getPubSubService(): the shared pub/sub singleton ("null" before it is
\* supplied); the server supplies it before the import worker is started
getPubSubService == "PubSubService"

\* the processor returns: processImportJob publishes and the job completes
JobReturn(j) ==
    /\ queue[j].state = "active"
    /\ \E result \in ImportResults :
          channel' = IF getPubSubService # "null"
                     THEN <<FinalSnapshot(queue[j], result)>>
                     ELSE <<>>
    /\ queue' = [queue EXCEPT ![j].state = "completed"]
    /\ lastOp' = "worker:completed"
    /\ outcome' = NoOutcome
    /\ UNCHANGED <<dlq, callers>>
    /\ UNCHANGED <<sseVars, importVars>>

\* a queue that never gives a job up: a failed attempt is not counted and the
\* job is delayed again
moveToFailed_retriesForever(job) ==
    [job EXCEPT !.state = "delayed"]

\* BullMQ on a processor that threw: the attempt is counted and the job is
\* delayed for its backoff while attempts remain, or failed for good
moveToFailed(job) ==
    LET made == job.attemptsMade + 1
    IN  [job EXCEPT !.attemptsMade = made,
                    !.state = IF made < job.opts.attempts THEN "delayed" ELSE "failed"]

\* Queue.add on the dead-letter queue with a jobId: a no-op when the id exists
dlqAdd(d, name, data, jobId) ==
    IF \E i \in 1..Len(d) : d[i].id = jobId
    THEN d
    ELSE Append(d, [id |-> jobId, name |-> name, data |-> data])

\* the 'failed' handler that notifies only when the retries are exhausted
onFailed_notifyWhenExhausted(job, error) ==
    IF job.attemptsMade >= job.opts.attempts
    THEN [published |-> <<FailureSnapshot(job, error)>>,
          dlq |-> dlqAdd(dlq, <<"dlq-", job.data.type>>, job.data, <<"dlq-", job.id>>)]
    ELSE [published |-> <<>>, dlq |-> dlq]

\* the 'failed' handler that never dead-letters the last attempt
onFailed_offByOne(job, error) ==
    [published |-> <<FailureSnapshot(job, error)>>,
     dlq |-> IF job.attemptsMade > job.opts.attempts
             THEN dlqAdd(dlq, <<"dlq-", job.data.type>>, job.data, <<"dlq-", job.id>>)
             ELSE dlq]

\* a 'failed' handler that dead-letters on every failed attempt
onFailed_everyFailure(job, error) ==
    [published |-> IF getPubSubService # "null"
                   THEN <<FailureSnapshot(job, error)>>
                   ELSE <<>>,
     dlq |-> dlqAdd(dlq, <<"dlq-", job.data.type>>, job.data, <<"dlq-", job.id>>)]

\* importWorker.on('failed'): what it publishes and the dead-letter queue after
onFailed(job, error) ==
    [published |-> IF getPubSubService # "null"
                   THEN <<FailureSnapshot(job, error)>>
                   ELSE <<>>,
     dlq |-> IF job.attemptsMade >= job.opts.attempts
             THEN dlqAdd(dlq, <<"dlq-", job.data.type>>, job.data, <<"dlq-", job.id>>)
             ELSE dlq]

\* the processor throws: BullMQ moves the job and the worker emits 'failed'
JobThrow(j) ==
    /\ queue[j].state = "active"
    /\ \E error \in {"fetch failed", ""} :
          LET job == moveToFailed(queue[j])
              h   == onFailed(job, error)
          IN  /\ queue' = [queue EXCEPT ![j] = job]
              /\ channel' = h.published
              /\ dlq' = h.dlq
    /\ lastOp' = "worker:failed"
    /\ outcome' = NoOutcome
    /\ UNCHANGED callers
    /\ UNCHANGED <<sseVars, importVars>>

\* the backoff delay of a retried job ends
DelayExpire(j) ==
    /\ queue[j].state = "delayed"
    /\ queue' = [queue EXCEPT ![j].state = "waiting"]
    /\ channel' = <<>>
    /\ lastOp' = "delay"
    /\ outcome' = NoOutcome
    /\ UNCHANGED <<dlq, callers>>
    /\ UNCHANGED <<sseVars, importVars>>

QueueInit ==
    /\ queue = <<>>
    /\ dlq = <<>>
    /\ callers = [c \in Callers |-> IdleCaller]
    /\ outcome = NoOutcome
    /\ channel = <<>>
    /\ lastOp = "new"
    /\ SSEIdle
    /\ ImportIdle

QueueNext ==
    \/ \E c \in Callers, serverId \in Servers, userId \in Users :
          EnqueueCheck(c, serverId, userId)
    \/ \E c \in Callers : EnqueueAdd(c)
    \/ \E c \in Callers, jobId \in 1..MaxJobs : CancelCheck(c, jobId)
    \/ \E c \in Callers : CancelRemove(c)
    \/ \E j \in 1..Len(queue) : WorkerTake(j)
    \/ \E j \in 1..Len(queue) : JobReturn(j)
    \/ \E j \in 1..Len(queue) : JobThrow(j)
    \/ \E j \in 1..Len(queue) : DelayExpire(j)

QueueSpec == QueueInit /\ [][QueueNext]_vars

\* the queue under a fair worker: a waiting job is taken once the worker is
\* free, the processor of an active job returns or throws, and the backoff
\* delay of a retried job ends
Fairness ==
    \A j \in 1..MaxJobs :
        /\ WF_vars(j \in 1..Len(queue) /\ WorkerTake(j))
        /\ WF_vars(j \in 1..Len(queue) /\ (JobReturn(j) \/ JobThrow(j)))
        /\ WF_vars(j \in 1..Len(queue) /\ DelayExpire(j))

FairQueueSpec == QueueInit /\ [][QueueNext]_vars /\ Fairness

(***************************************************************************)
(* The history import: TautulliService.importHistory and the sessions     *)
(* table it writes.  The worker runs one import at a time.                 *)
(***************************************************************************)

\* records per page requested from Tautulli (100 in the source, scaled down
\* so that a short history spans more than one page)
PAGE_SIZE == 2
\* records between two publishes of the record loop (10 in the source, scaled
\* down with PAGE_SIZE: a page holds more records than that)
PROGRESS_EVERY == 1
\* the longest upstream history
MaxRecords == 3
\* the most rows the sessions table holds
MaxRows == 2

Refs == {"r1", "r2"}

Null == [t |-> "null", v |-> 0]

\* TautulliHistoryRecord: the fields the import reads.  User 1 is a user of
\* both servers, user 9 of none; of a record of user 9 only user_id is read,
\* so one such record stands for all of them
TautulliHistoryRecord ==
    { [reference_id |-> r, user_id |-> 1, rating_key |-> "k1",
       started |-> t, stopped |-> t + 5, duration |-> 5,
       percent_complete |-> 50] :
      r \in Refs, t \in {10, 20} }
    \cup { [reference_id |-> "r1", user_id |-> 9, rating_key |-> "k1",
            started |-> 10, stopped |-> 15, duration |-> 5,
            percent_complete |-> 50] }

\* the users table
users ==
    { [id |-> "u1", serverId |-> "s1", externalId |-> "1"],
      [id |-> "u2", serverId |-> "s2", externalId |-> "1"],
      [id |-> "u3", serverId |-> "s1", externalId |-> "local"] }

\* parseInt(externalId, 10)
parseInt(str) == IF str = "1" THEN Num(1) ELSE NaN

\* userMap.get(user_id) over the server's users with a numeric externalId
userMapGet(serverId, user_id) ==
    LET mapped == { u \in users : /\ u.serverId = serverId
                                  /\ parseInt(u.externalId) = Num(user_id) }
    IN  IF mapped = {} THEN "undefined" ELSE (CHOOSE u \in mapped : TRUE).id

\* new Date(seconds * 1000)
Date(seconds) == Num(seconds * 1000)

\* Math.round((percent / 100) * (totalDurationMs ?? 0))
progressOf(percent, totalDurationMs) ==
    LET total == IF totalDurationMs = Null THEN 0 ELSE totalDurationMs.v
    IN  Num((percent * total + 50) \div 100)

\* Math.ceil(a / b)
ceil(a, b) == (a + b - 1) \div b

\* tautulli.getHistory(start, length).records: the records Tautulli holds
\* from `start` on, at most `length` of them
getHistory(start, length) ==
    SubSeq(upstream, start + 1,
           IF start + length < Len(upstream) THEN start + length ELSE Len(upstream))

\* a lookup by reference that sees only rows still open
existingByRef_onlyOpen(table, serverId, reference_id) ==
    { id \in 1..Len(table) : /\ table[id].serverId = serverId
                             /\ table[id].externalSessionId = reference_id
                             /\ table[id].stoppedAt = Null }

\* the rows the lookup by (serverId, externalSessionId) matches
existingByRef(table, serverId, reference_id) ==
    { id \in 1..Len(table) : /\ table[id].serverId = serverId
                             /\ table[id].externalSessionId = reference_id }

\* a lookup by time that does not look at the server
existingByTime_anyServer(table, serverId, userId, rating_key, startedAt) ==
    { id \in 1..Len(table) : /\ table[id].ratingKey = rating_key
                             /\ table[id].startedAt = startedAt }

\* the rows the lookup by (serverId, userId, ratingKey, startedAt) matches
existingByTime(table, serverId, userId, rating_key, startedAt) ==
    { id \in 1..Len(table) : /\ table[id].serverId = serverId
                             /\ table[id].userId = userId
                             /\ table[id].ratingKey = rating_key
                             /\ table[id].startedAt = startedAt }

\* db.update(sessions).set({stoppedAt, durationMs, progressMs}) of a known ref
updateByRef(table, id, record) ==
    [table EXCEPT ![id].stoppedAt = Date(record.stopped),
                  ![id].durationMs = Num(record.duration * 1000),
                  ![id].progressMs = progressOf(record.percent_complete,
                                                table[id].totalDurationMs)]

\* db.update(sessions).set({externalSessionId, stoppedAt, durationMs})
updateByTime(table, id, record) ==
    [table EXCEPT ![id].externalSessionId = record.reference_id,
                  ![id].stoppedAt = Date(record.stopped),
                  ![id].durationMs = Num(record.duration * 1000)]

\* db.insert(sessions).values({...})
insert(table, serverId, userId, record) ==
    Append(table, [serverId |-> serverId,
                   userId |-> userId,
                   ratingKey |-> record.rating_key,
                   externalSessionId |-> record.reference_id,
                   startedAt |-> Date(record.started),
                   stoppedAt |-> Date(record.stopped),
                   durationMs |-> Num(record.duration * 1000),
                   totalDurationMs |-> Null,
                   progressMs |-> Null])

\* what publishProgress sends: the progress object as it is now
publishProgress(progress) == <<progress>>

\* the record counters of a snapshot importHistory publishes: its progress
\* object has no updatedRecords
counters(progress) ==
    [totalRecords |-> Num(progress.totalRecords),
     processedRecords |-> Num(progress.processedRecords),
     importedRecords |-> Num(progress.importedRecords),
     updatedRecords |-> Undefined,
     skippedRecords |-> Num(progress.skippedRecords),
     errorRecords |-> Num(progress.errorRecords)]

\* the counters held after importHistory published `snapshots`, in order
received(snapshots) ==
    IF snapshots = <<>> THEN jobProgress ELSE counters(snapshots[Len(snapshots)])

\* importHistory up to its first publish, or its refusal
ImportStart(serverId) ==
    /\ imp.pc = "idle"
    /\ \E config \in {"unconfigured", "unreachable", "ok"} :
          IF config = "ok"
          THEN LET progress == [status |-> "fetching", totalRecords |-> 0,
                                processedRecords |-> 0, importedRecords |-> 0,
                                skippedRecords |-> 0, errorRecords |-> 0,
                                currentPage |-> 0, totalPages |-> 0,
                                message |-> <<"Connecting to Tautulli...">>]
               IN  /\ imp' = [NotImporting EXCEPT !.pc = "total",
                                                  !.serverId = serverId,
                                                  !.progress = progress]
                   /\ channel' = publishProgress(progress)
          ELSE /\ imp' = [NotImporting EXCEPT !.result =
                            [kind |-> "returned", success |-> FALSE, imported |-> 0,
                             skipped |-> 0, errors |-> 0,
                             message |-> IF config = "unconfigured"
                                         THEN <<"Tautulli is not configured.">>
                                         ELSE <<"Failed to connect to Tautulli.">>]]
               /\ channel' = <<>>
    /\ jobProgress' = received(channel')
    /\ lastOp' = "importHistory"
    /\ UNCHANGED <<sessions, upstream>>
    /\ UNCHANGED <<sseVars, queueVars>>

\* the first getHistory(0, 1): the total and the number of pages
ImportTotal ==
    /\ imp.pc = "total"
    /\ LET total == Len(upstream)
           progress == [imp.progress EXCEPT
                          !.totalRecords = total,
                          !.totalPages = ceil(total, PAGE_SIZE),
                          !.message = <<"Found records to import", total>>]
       IN  /\ imp' = [imp EXCEPT !.pc = "page", !.total = total, !.page = 0,
                                 !.progress = progress]
           /\ channel' = publishProgress(progress)
    /\ jobProgress' = received(channel')
    /\ lastOp' = "import:total"
    /\ UNCHANGED <<sessions, upstream>>
    /\ UNCHANGED <<sseVars, queueVars>>

\* the progress object as the head of the page loop publishes it
pageHead(progress, page) ==
    [progress EXCEPT !.status = "processing",
                     !.currentPage = page + 1,
                     !.message = <<"Processing page", page + 1, progress.totalPages>>]

\* a getHistory call throws: importHistory rejects and the run ends there
ImportThrow ==
    /\ \/ imp.pc = "total"
       \/ imp.pc = "page" /\ imp.page * PAGE_SIZE < imp.total
    /\ imp' = [NotImporting EXCEPT !.result = [NoResult EXCEPT !.kind = "thrown"]]
    \* the head of the page loop publishes before it fetches
    /\ channel' = IF imp.pc = "page"
                  THEN publishProgress(pageHead(imp.progress, imp.page))
                  ELSE <<>>
    /\ jobProgress' = received(channel')
    /\ lastOp' = "import:throw"
    /\ UNCHANGED <<sessions, upstream>>
    /\ UNCHANGED <<sseVars, queueVars>>

\* a page loop that ends at the first page that comes back empty
ImportPage_stopsOnEmptyPage ==
    /\ imp.pc = "page"
    /\ imp.page * PAGE_SIZE < imp.total
    /\ LET progress == pageHead(imp.progress, imp.page)
           start == imp.page * PAGE_SIZE
           records == getHistory(start, PAGE_SIZE)
       IN  /\ imp' = IF records = <<>>
                     THEN [imp EXCEPT !.page = ceil(imp.total, PAGE_SIZE),
                                      !.progress = progress, !.path = "",
                                      !.offsets = Append(@, start)]
                     ELSE [imp EXCEPT !.pc = "record", !.records = records,
                                      !.idx = 1, !.progress = progress,
                                      !.path = "", !.offsets = Append(@, start)]
           /\ channel' = publishProgress(progress)
    /\ jobProgress' = received(channel')
    /\ lastOp' = "import:page"
    /\ UNCHANGED <<sessions, upstream>>
    /\ UNCHANGED <<sseVars, queueVars>>

\* the head of the page loop: publish, then fetch the page; a page without
\* records leaves the record loop at once, and page++ follows
ImportPage ==
    /\ imp.pc = "page"
    /\ imp.page * PAGE_SIZE < imp.total
    /\ LET progress == pageHead(imp.progress, imp.page)
           start == imp.page * PAGE_SIZE
           records == getHistory(start, PAGE_SIZE)
       IN  /\ imp' = IF records = <<>>
                     THEN [imp EXCEPT !.page = @ + 1, !.progress = progress,
                                      !.path = "", !.offsets = Append(@, start)]
                     ELSE [imp EXCEPT !.pc = "record", !.records = records,
                                      !.idx = 1, !.progress = progress,
                                      !.path = "", !.offsets = Append(@, start)]
           /\ channel' = publishProgress(progress)
    /\ jobProgress' = received(channel')
    /\ lastOp' = "import:page"
    /\ UNCHANGED <<sessions, upstream>>
    /\ UNCHANGED <<sseVars, queueVars>>

\* a record loop whose catch rethrows: a fault in one record ends the run
RecordDone_errorAborts(path, table) ==
    IF path = "error"
    THEN /\ sessions' = table
         /\ imp' = [NotImporting EXCEPT !.result = [NoResult EXCEPT !.kind = "thrown"]]
         /\ channel' = <<>>
    ELSE LET progress == [imp.progress EXCEPT
                            !.processedRecords = @ + 1,
                            !.importedRecords = IF path = "insert" THEN @ + 1 ELSE @,
                            !.skippedRecords = IF path = "insert" THEN @ ELSE @ + 1]
             last == imp.idx = Len(imp.records)
         IN  /\ sessions' = table
             /\ imp' = [imp EXCEPT
                          !.progress = progress,
                          !.imported = IF path = "insert" THEN @ + 1 ELSE @,
                          !.skipped = IF path = "insert" THEN @ ELSE @ + 1,
                          !.path = path,
                          !.pc = IF last THEN "page" ELSE "record",
                          !.page = IF last THEN @ + 1 ELSE @,
                          !.records = IF last THEN <<>> ELSE @,
                          !.idx = IF last THEN 0 ELSE @ + 1]
             /\ channel' = IF path = "insert" /\ progress.processedRecords % PROGRESS_EVERY = 0
                           THEN <<progress>>
                           ELSE <<>>

\* the end of one iteration of the record loop: the counters of the path
\* taken, the publish every PROGRESS_EVERY records (reached on the insert and
\* the catch path only; the other paths `continue`), and page++ after the
\* last record
RecordDone(path, table) ==
    LET progress == [imp.progress EXCEPT
                       !.processedRecords = @ + 1,
                       !.importedRecords = IF path = "insert" THEN @ + 1 ELSE @,
                       !.skippedRecords = IF path \in {"unknownUser", "byRef", "byTime"}
                                          THEN @ + 1 ELSE @,
                       !.errorRecords = IF path = "error" THEN @ + 1 ELSE @]
        last == imp.idx = Len(imp.records)
    IN  /\ sessions' = table
        /\ imp' = [imp EXCEPT
                     !.progress = progress,
                     !.imported = IF path = "insert" THEN @ + 1 ELSE @,
                     !.skipped = IF path \in {"unknownUser", "byRef", "byTime"}
                                 THEN @ + 1 ELSE @,
                     !.errors = IF path = "error" THEN @ + 1 ELSE @,
                     !.path = path,
                     !.pc = IF last THEN "page" ELSE "record",
                     !.page = IF last THEN @ + 1 ELSE @,
                     !.records = IF last THEN <<>> ELSE @,
                     !.idx = IF last THEN 0 ELSE @ + 1]
        /\ channel' = IF /\ path \in {"insert", "error"}
                         /\ progress.processedRecords % PROGRESS_EVERY = 0
                      THEN publishProgress(progress)
                      ELSE <<>>

\* a record loop without the test of the user: a record of an unknown user
\* is looked up and inserted like any other
ImportRecord_noUserCheck ==
    /\ imp.pc = "record"
    /\ LET record == imp.records[imp.idx]
           userId == userMapGet(imp.serverId, record.user_id)
           byRef  == existingByRef(sessions, imp.serverId, record.reference_id)
           byTime == existingByTime(sessions, imp.serverId, userId,
                                    record.rating_key, Date(record.started))
       IN  \/ RecordDone("error", sessions)
           \/ /\ byRef # {}
              /\ \E id \in byRef :
                    RecordDone("byRef", updateByRef(sessions, id, record))
           \/ /\ byRef = {}
              /\ byTime # {}
              /\ \E id \in byTime :
                    RecordDone("byTime", updateByTime(sessions, id, record))
           \/ /\ byRef = {}
              /\ byTime = {}
              /\ Len(sessions) < MaxRows
              /\ RecordDone("insert",
                            insert(sessions, imp.serverId, userId, record))
    /\ jobProgress' = received(channel')
    /\ lastOp' = "import:record"
    /\ UNCHANGED upstream
    /\ UNCHANGED <<sseVars, queueVars>>

\* one iteration of the record loop; a record of a user the map does not hold
\* leaves the iteration before the first query; .limit(1) without an order
\* returns any one of the matching rows, and a lookup, update or insert may
\* throw
ImportRecord ==
    /\ imp.pc = "record"
    /\ LET record == imp.records[imp.idx]
           userId == userMapGet(imp.serverId, record.user_id)
           byRef  == existingByRef(sessions, imp.serverId, record.reference_id)
           byTime == existingByTime(sessions, imp.serverId, userId,
                                    record.rating_key, Date(record.started))
       IN  IF userId = "undefined"
           THEN RecordDone("unknownUser", sessions)
           ELSE \/ RecordDone("error", sessions)
                \/ /\ byRef # {}
                   /\ \E id \in byRef :
                         RecordDone("byRef", updateByRef(sessions, id, record))
                \/ /\ byRef = {}
                   /\ byTime # {}
                   /\ \E id \in byTime :
                         RecordDone("byTime", updateByTime(sessions, id, record))
                \/ /\ byRef = {}
                   /\ byTime = {}
                   /\ Len(sessions) < MaxRows
                   /\ RecordDone("insert",
                                 insert(sessions, imp.serverId, userId, record))
    /\ jobProgress' = received(channel')
    /\ lastOp' = "import:record"
    /\ UNCHANGED upstream
    /\ UNCHANGED <<sseVars, queueVars>>

\* after the last page: the two closing publishes and the result
ImportFinish ==
    /\ imp.pc = "page"
    /\ ~(imp.page * PAGE_SIZE < imp.total)
    /\ LET refreshing == [imp.progress EXCEPT !.message = <<"Refreshing aggregates...">>]
           complete   == [refreshing EXCEPT
                            !.status = "complete",
                            !.message = <<"Import complete", imp.imported,
                                          imp.skipped, imp.errors>>]
       IN  /\ imp' = [NotImporting EXCEPT !.result =
                        [kind |-> "returned", success |-> TRUE,
                         imported |-> imp.imported, skipped |-> imp.skipped,
                         errors |-> imp.errors, message |-> complete.message]]
           /\ channel' = publishProgress(refreshing) \o publishProgress(complete)
    /\ jobProgress' = received(channel')
    /\ lastOp' = "import:complete"
    /\ UNCHANGED <<sessions, upstream>>
    /\ UNCHANGED <<sseVars, queueVars>>

\* the session tracker stores a session it saw itself: no external reference
IngestSession(serverId, startedAt) ==
    /\ Len(sessions) < MaxRows
    /\ sessions' = Append(sessions,
                          [serverId |-> serverId,
                           userId |-> userMapGet(serverId, 1),
                           ratingKey |-> "k1",
                           externalSessionId |-> "null",
                           startedAt |-> Num(startedAt),
                           stoppedAt |-> Null,
                           durationMs |-> Null,
                           totalDurationMs |-> Num(100000),
                           progressMs |-> Num(30000)])
    /\ imp' = [imp EXCEPT !.path = "", !.result = NoResult]
    /\ channel' = <<>>
    /\ lastOp' = "ingest"
    /\ UNCHANGED <<upstream, jobProgress>>
    /\ UNCHANGED <<sseVars, queueVars>>

ImportInit ==
    /\ sessions = <<>>
    /\ upstream \in UNION { [1..n -> TautulliHistoryRecord] : n \in 0..MaxRecords }
    /\ imp = NotImporting
    /\ jobProgress = NoProgress
    /\ lastOp = "new"
    /\ SSEIdle
    /\ QueueIdle

ImportNext ==
    \/ \E serverId \in Servers : ImportStart(serverId)
    \/ ImportTotal
    \/ ImportThrow
    \/ ImportPage
    \/ ImportRecord
    \/ ImportFinish
    \/ \E serverId \in Servers, startedAt \in {10000, 10250} :
          IngestSession(serverId, startedAt)

ImportSpec == ImportInit /\ [][ImportNext]_vars

(***************************************************************************)
(* The worker running an import: processImportJob calls importHistory for  *)
(* the server of the active job and completes or fails the job with what   *)
(* it returned or threw.                                                   *)
(***************************************************************************)

\* the record counters of a snapshot processImportJob or the 'failed' handler
\* publishes
jobCounters(snapshot) ==
    [totalRecords |-> snapshot.totalRecords,
     processedRecords |-> snapshot.processedRecords,
     importedRecords |-> snapshot.importedRecords,
     updatedRecords |-> snapshot.updatedRecords,
     skippedRecords |-> snapshot.skippedRecords,
     errorRecords |-> snapshot.errorRecords]

\* the counters held after the job published `snapshots`, in order
jobReceived(snapshots) ==
    IF snapshots = <<>> THEN jobProgress ELSE jobCounters(snapshots[Len(snapshots)])

\* Math.round((processedRecords / totalRecords) * 100), or 0 without records
percentOf(progress) ==
    IF progress.totalRecords > 0
    THEN (progress.processedRecords * 200 + progress.totalRecords)
             \div (2 * progress.totalRecords)
    ELSE 0

\* {...progress, jobId: job.id}
withJobId(progress, job) ==
    [field \in DOMAIN progress \cup {"jobId"} |->
        IF field = "jobId" THEN job.id ELSE progress[field]]

\* a progress callback without the try around extendLock: its failure
\* rejects the callback
onProgress_extendFatal(job, progress, extendLock) ==
    LET updated == [job EXCEPT !.progress = percentOf(progress)]
    IN  IF extendLock = "extended"
        THEN [job       |-> [updated EXCEPT !.lockMs = @ + 5 * 60 * 1000],
              warned    |-> FALSE,
              thrown    |-> FALSE,
              published |-> IF getPubSubService # "null"
                            THEN <<withJobId(progress, job)>>
                            ELSE <<>>]
        ELSE [job |-> updated, warned |-> FALSE, thrown |-> TRUE, published |-> <<>>]

\* the progress callback processImportJob builds: it sets the job's progress,
\* extends the job's lock by 5 minutes (extendLock: "extended", or "rejected"
\* when BullMQ refuses, which is caught and logged) and publishes the progress
\* with the job's id
onProgress(job, progress, extendLock) ==
    LET updated == [job EXCEPT !.progress = percentOf(progress)]
    IN  [job       |-> IF extendLock = "extended"
                       THEN [updated EXCEPT !.lockMs = @ + 5 * 60 * 1000]
                       ELSE updated,
         warned    |-> extendLock # "extended",
         thrown    |-> FALSE,
         published |-> IF getPubSubService # "null"
                       THEN <<withJobId(progress, job)>>
                       ELSE <<>>]

\* processImportJob calls importHistory(serverId, pubSubService, onProgress)
\* for the job it runs; importHistory has two parameters, (serverId,
\* pubSubService), and publishes through its own publishProgress: the third
\* argument is never called
JobImport(j) ==
    /\ queue[j].state = "active"
    /\ imp.result.kind = "none"
    /\ ImportStart(queue[j].data.serverId)

\* a processor that throws when importHistory reports no success
JobCompleted_throwsOnRefusal(j) ==
    /\ queue[j].state = "active"
    /\ imp.pc = "idle"
    /\ imp.result.kind = "returned"
    /\ IF imp.result.success
       THEN /\ channel' = <<FinalSnapshot(queue[j], imp.result)>>
            /\ queue' = [queue EXCEPT ![j].state = "completed"]
            /\ dlq' = dlq
            /\ lastOp' = "worker:completed"
       ELSE LET job == moveToFailed(queue[j])
                h   == onFailed(job, "refused")
            IN  /\ queue' = [queue EXCEPT ![j] = job]
                /\ channel' = h.published
                /\ dlq' = h.dlq
                /\ lastOp' = "worker:failed"
    /\ imp' = NotImporting
    /\ jobProgress' = jobReceived(channel')
    /\ outcome' = NoOutcome
    /\ UNCHANGED <<callers, sessions, upstream>>
    /\ UNCHANGED sseVars

\* importHistory returned: processImportJob publishes the final snapshot and
\* returns the result, and the job completes
JobCompleted(j) ==
    /\ queue[j].state = "active"
    /\ imp.pc = "idle"
    /\ imp.result.kind = "returned"
    /\ channel' = IF getPubSubService # "null"
                  THEN <<FinalSnapshot(queue[j], imp.result)>>
                  ELSE <<>>
    /\ queue' = [queue EXCEPT ![j].state = "completed"]
    /\ imp' = NotImporting
    /\ jobProgress' = jobReceived(channel')
    /\ lastOp' = "worker:completed"
    /\ outcome' = NoOutcome
    /\ UNCHANGED <<dlq, callers, sessions, upstream>>
    /\ UNCHANGED sseVars

\* importHistory threw: processImportJob rejects, BullMQ moves the job and the
\* worker emits 'failed'
JobFailed(j) ==
    /\ queue[j].state = "active"
    /\ imp.pc = "idle"
    /\ imp.result.kind = "thrown"
    /\ \E error \in {"fetch failed", ""} :
          LET job == moveToFailed(queue[j])
              h   == onFailed(job, error)
          IN  /\ queue' = [queue EXCEPT ![j] = job]
              /\ channel' = h.published
              /\ dlq' = h.dlq
    /\ imp' = NotImporting
    /\ jobProgress' = jobReceived(channel')
    /\ lastOp' = "worker:failed"
    /\ outcome' = NoOutcome
    /\ UNCHANGED <<callers, sessions, upstream>>
    /\ UNCHANGED sseVars

WorkerInit ==
    /\ queue = <<>>
    /\ dlq = <<>>
    /\ callers = [c \in Callers |-> IdleCaller]
    /\ outcome = NoOutcome
    /\ channel = <<>>
    /\ sessions = <<>>
    /\ upstream \in UNION { [1..n -> TautulliHistoryRecord] : n \in 0..MaxRecords }
    /\ imp = NotImporting
    /\ jobProgress = NoProgress
    /\ lastOp = "new"
    /\ SSEIdle

WorkerNext ==
    \* one job is followed through its executions
    \/ /\ queue = <<>>
       /\ \E serverId \in Servers, userId \in Users : EnqueueCheck(1, serverId, userId)
    \/ EnqueueAdd(1)
    \/ \E j \in 1..Len(queue) : WorkerTake(j)
    \/ \E j \in 1..Len(queue) : JobImport(j)
    \/ ImportTotal
    \/ ImportThrow
    \/ ImportPage
    \/ ImportRecord
    \/ ImportFinish
    \/ \E j \in 1..Len(queue) : JobCompleted(j)
    \/ \E j \in 1..Len(queue) : JobFailed(j)
    \/ \E j \in 1..Len(queue) : DelayExpire(j)

WorkerSpec == WorkerInit /\ [][WorkerNext]_vars

(***************************************************************************)
(* The same worker against a Tautulli whose history loses records while    *)
(* the import reads it: the total announced by the first request is then   *)
(* more than the pages return.                                             *)
(***************************************************************************)

\* Tautulli drops the oldest record of its history (the last of the listing,
\* which is ordered newest first) while an import is in its page loop
TautulliPurge ==
    /\ imp.pc \in {"page", "record"}
    /\ upstream # <<>>
    /\ upstream' = SubSeq(upstream, 1, Len(upstream) - 1)
    /\ channel' = <<>>
    /\ lastOp' = "tautulli:purge"
    /\ UNCHANGED <<sessions, imp, jobProgress>>
    /\ UNCHANGED <<sseVars, queueVars>>

PurgeNext ==
    \/ WorkerNext
    \/ TautulliPurge

PurgeSpec == WorkerInit /\ [][PurgeNext]_vars

(***************************************************************************)
(* The progress callback of processImportJob, called on an active job by   *)
(* an importer that reports through it.  TautulliService.importHistory     *)
(* takes no callback and never calls it: here it is applied directly.      *)
(***************************************************************************)
\* lock extensions followed for one job
MaxExtensions == 2

\* TautulliImportProgress objects a caller may report
ProgressObjects ==
    UNION { { [status |-> status, totalRecords |-> total,
               processedRecords |-> processed, importedRecords |-> processed,
               skippedRecords |-> 0, errorRecords |-> 0,
               currentPage |-> IF status = "fetching" THEN 0 ELSE 1,
               totalPages |-> ceil(total, PAGE_SIZE),
               message |-> <<status>>] :
              processed \in 0..total, status \in {"fetching", "processing", "complete"} } :
            total \in 0..MaxRecords }

\* one call onProgress(progress) while job j is active; the caller's progress
\* object is kept in imp.progress
OnProgress(j, progress, extendLock) ==
    /\ queue[j].state = "active"
    /\ queue[j].lockMs < MaxExtensions * (5 * 60 * 1000)
    /\ LET call == onProgress(queue[j], progress, extendLock)
       IN  /\ queue' = [queue EXCEPT ![j] = call.job]
           /\ channel' = call.published
           /\ outcome' = [kind |-> IF call.thrown THEN "onProgress:thrown"
                                   ELSE IF call.warned THEN "onProgress:warned"
                                   ELSE "onProgress:returned",
                          serverId |-> queue[j].data.serverId, jobId |-> queue[j].id]
    /\ imp' = [imp EXCEPT !.progress = progress]
    /\ lastOp' = "onProgress"
    /\ UNCHANGED <<dlq, callers, sessions, upstream, jobProgress>>
    /\ UNCHANGED sseVars

CallbackNext ==
    \/ /\ queue = <<>>
       /\ \E serverId \in Servers, userId \in Users : EnqueueCheck(1, serverId, userId)
    \/ EnqueueAdd(1)
    \/ \E j \in 1..Len(queue) : WorkerTake(j)
    \/ \E j \in 1..Len(queue), progress \in ProgressObjects,
          extendLock \in {"extended", "rejected"} :
          OnProgress(j, progress, extendLock)

CallbackSpec == QueueInit /\ [][CallbackNext]_vars

(***************************************************************************)
(* Properties of the connection manager.                                   *)
(***************************************************************************)

\* C1: at every moment at most one reconnect timer is pending for the
\* instance, whatever connect(), disconnect(), transport errors, messages and
\* heartbeat timeouts occurred.
C1_OneReconnectTimerPending == ReconnectPending(this) <= 1

\* C2: when the heartbeat timer fires, exactly one reconnect cycle follows:
\* one 'connection:error' is emitted, reconnectAttempts grows by exactly 1,
\* one reconnect timer is armed and it is the only one pending, so that
\* exactly one connect() follows from it.
C2_HeartbeatOneReconnectCycle ==
    [][ lastOp' = "heartbeat" =>
          /\ CountEv(this'.out, "connection:error") = 1
          /\ this'.reconnectAttempts = this.reconnectAttempts + 1
          /\ CountEv(this'.out, "setTimeout") = 1
          /\ ReconnectPending(this') = 1 ]_vars

\* C3: a failure that finds MAX_RETRIES reconnect attempts already made moves
\* the state to 'fallback' and arms no timer, and while the state is
\* 'fallback' no reconnect timer is pending.
C3_FallbackNoReconnect ==
    /\ [][ (CountEv(this'.out, "connection:error") = 1
              /\ lastOp' \in {"connect", "reconnect", "onerror", "heartbeat"}
              /\ this.reconnectAttempts >= MAX_RETRIES)
           => (this'.state = "fallback" /\ CountEv(this'.out, "setTimeout") = 0) ]_vars
    /\ [](this.state = "fallback" => ReconnectPending(this) = 0)

\* C9: connect() in state 'connecting' or 'connected' changes no field of the
\* instance (state, transport, reconnectAttempts, lastError, both timers) and
\* emits nothing.
C9_ConnectIsNoOp ==
    [][ (lastOp' = "connect" /\ this.state \in {"connecting", "connected"})
          => this' = [this EXCEPT !.out = <<>>] ]_vars

\* C9's case: connect() ran on a connected instance
C9_Witness ==
    /\ lastOp = "connect"
    /\ this.state = "connected"
    /\ this.eventSource = "OPEN"
    /\ this.heartbeatTimer = "armed"

\* C10 as stated: of two or more connect() calls suspended together, exactly
\* one creates a transport and the state moves to 'connecting' exactly once.
C10_ExactlyOneTransport ==
    (batch.calls >= 2 /\ pendingConnects = 0)
        => (batch.created = 1 /\ batch.connecting = 1)

\* C10 amended: of two or more connect() calls suspended together, at most one
\* creates a transport, and exactly one does and the state moves to
\* 'connecting' exactly once when no attempt of theirs fails; every call that
\* moves the state to 'connecting' either creates a transport or fails.
C10_OneTransportUnlessFailed ==
    (batch.calls >= 2 /\ pendingConnects = 0)
        => /\ batch.created <= 1
           /\ batch.connecting = batch.created + batch.failed
           /\ (batch.failed = 0 => batch.created = 1)

\* C10's case: two suspended calls resumed and one transport exists
C10_Witness ==
    /\ batch.calls >= 2
    /\ pendingConnects = 0
    /\ batch.created = 1
    /\ batch.connecting = 1
    /\ this.eventSource # "null"

\* C11: a disconnect() call, in whatever state, ends with the state
\* 'disconnected', no reconnect timer pending, no heartbeat timer pending and
\* no transport; a second disconnect() right after it changes nothing and
\* emits nothing.
C11_DisconnectLeavesNothing ==
    [][ lastOp' = "disconnect"
          => /\ this'.state = "disconnected"
             /\ ReconnectPending(this') = 0
             /\ this'.heartbeatTimer # "armed"
             /\ this'.eventSource = "null"
             /\ lastOp = "disconnect" => this' = [this EXCEPT !.out = <<>>] ]_vars

\* C12: while the state is 'disconnected', no connect() call is suspended and
\* no reconnect timer is left over, every step that is not a connect() call,
\* the dispatch of a message that was in flight at the disconnect included,
\* leaves the state 'disconnected', opens no transport and schedules no
\* reconnect.
C12_DisconnectedUntilConnect ==
    [][ ( /\ this.state = "disconnected"
          /\ ReconnectPending(this) = 0
          /\ pendingConnects = 0
          /\ lastOp' \notin {"connect", "connect:await"} )
          => /\ this'.state = "disconnected"
             /\ this'.eventSource = "null"
             /\ ReconnectPending(this') = 0
             /\ CountEv(this'.out, "connection:state") = 0 ]_vars

\* C13: once the state is 'fallback' (and no reconnect timer is left over),
\* no step moves it to 'connecting', 'reconnecting' or 'connected', not even
\* in passing; only disconnect() changes it, to 'disconnected'.
C13_FallbackIsTerminal ==
    [][ (this.state = "fallback" /\ ReconnectPending(this) = 0)
          => /\ \/ this'.state = "fallback"
                \/ this'.state = "disconnected" /\ lastOp' = "disconnect"
             /\ CountState(this'.out, "connecting") = 0
             /\ CountState(this'.out, "reconnecting") = 0
             /\ CountState(this'.out, "connected") = 0 ]_vars

\* C14: the transport's open event leaves the state 'connected',
\* reconnectAttempts 0, lastError null and the heartbeat timer armed;
\* reconnectAttempts is 0 whenever the state is 'connected'; so the first
\* failure after an open schedules reconnect attempt 1 of MAX_RETRIES.
C14_OpenResetsRetryBudget ==
    /\ [][ /\ lastOp' = "onopen"
                => /\ this'.state = "connected"
                   /\ this'.reconnectAttempts = 0
                   /\ this'.lastError = "null"
                   /\ this'.heartbeatTimer = "armed"
                   /\ this'.connectedAt = "set"
           /\ (this.state = "connected" /\ lastOp' \in {"onerror", "heartbeat"})
                => /\ this'.state = "reconnecting"
                   /\ this'.reconnectAttempts = 1
                   /\ CountEv(this'.out, "setTimeout") = 1 ]_vars
    /\ [](this.state = "connected" => this.reconnectAttempts = 0)

\* C14's case: the transport failed more than once, opened again, and the
\* failure after that open is counted as attempt 1
C14_Witness ==
    /\ lastOp = "onerror"
    /\ this.state = "reconnecting"
    /\ this.reconnectAttempts = 1
    /\ this.reconnectOrphans = 1
    /\ this.connectedAt = "set"


\* the timer a step armed: the argument of its setTimeout
TimerOf(self) == SelectSeq(self.out, LAMBDA e : e.ev = "setTimeout")[1].arg

\* C26: for every attempt number n >= 1 the reconnect delay minus its jitter
\* is min(INITIAL_RETRY_DELAY_MS * RETRY_MULTIPLIER^(n-1), MAX_RETRY_DELAY_MS),
\* lies between INITIAL_RETRY_DELAY_MS and MAX_RETRY_DELAY_MS and is not less
\* than that of attempt n - 1; the jitter lies in [0, 1000) ms.
C26_DelayBounded ==
    /\ [](lastOp = "scheduleReconnect"
            => LET n       == this.reconnectAttempts
                   timer   == TimerOf(this)
                   base    == timer.delay - timer.jitter
                   unclamped == INITIAL_RETRY_DELAY_MS * pow(RETRY_MULTIPLIER, n - 1)
               IN  /\ n >= 1
                   /\ base = IF unclamped <= MAX_RETRY_DELAY_MS
                             THEN unclamped ELSE MAX_RETRY_DELAY_MS
                   /\ INITIAL_RETRY_DELAY_MS <= base
                   /\ base <= MAX_RETRY_DELAY_MS
                   /\ 0 <= timer.jitter
                   /\ timer.jitter < 1000)
    /\ [][ (lastOp = "scheduleReconnect" /\ lastOp' = "scheduleReconnect")
             => /\ this'.reconnectAttempts = this.reconnectAttempts + 1
                /\ TimerOf(this').delay - TimerOf(this').jitter
                      >= TimerOf(this).delay - TimerOf(this).jitter ]_vars

\* C26's case: an attempt whose delay is clamped, with a jitter above zero
C26_Witness ==
    /\ lastOp = "scheduleReconnect"
    /\ this.reconnectAttempts >= 2
    /\ TimerOf(this).delay - TimerOf(this).jitter = MAX_RETRY_DELAY_MS
    /\ INITIAL_RETRY_DELAY_MS * pow(RETRY_MULTIPLIER, this.reconnectAttempts - 1)
          > MAX_RETRY_DELAY_MS
    /\ TimerOf(this).jitter > 0

\* a message of the direct shape only: {PlaySessionStateNotification: n}
IsDirect(event) ==
    event.kind = "json" /\ event.direct # <<>> /\ ~event.hasContainer

\* C27: a session notification with state 'buffering' causes the same
\* subscriber notification as one with state 'playing', 'session:playing'
\* with the notification as payload; 'paused' causes 'session:paused',
\* 'stopped' causes 'session:stopped', and any other state causes none.
C27_BufferingIsPlaying ==
    [][ (lastOp' = "message" /\ IsDirect(dispatched'))
          => LET n == dispatched'.direct[1]
                 one(name) == <<[ev |-> name, arg |-> "", payload |-> n]>>
             IN  /\ n.state \in {"playing", "buffering"}
                       => this'.out = one("session:playing")
                 /\ n.state = "paused" => this'.out = one("session:paused")
                 /\ n.state = "stopped" => this'.out = one("session:stopped")
                 /\ n.state \notin {"playing", "buffering", "paused", "stopped"}
                       => this'.out = <<>> ]_vars

\* C27's case: a 'buffering' notification was announced as 'session:playing'
C27_Witness ==
    /\ lastOp = "message"
    /\ IsDirect(dispatched)
    /\ dispatched.direct[1].state = "buffering"
    /\ Len(this.out) = 1
    /\ this.out[1].ev = "session:playing"
    /\ this.out[1].payload.state = "buffering"

\* a message of the wrapped shape: {NotificationContainer: {type, ...}}
IsWrapped(event) == event.kind = "json" /\ event.hasContainer

\* what direct-shape messages carrying the notifications ns, one message per
\* notification and in their order, make the instance emit
RECURSIVE DirectOut(_, _)
DirectOut(self, ns) ==
    IF ns = <<>>
    THEN <<>>
    ELSE handleMessage(self, MessageText("json", <<Head(ns)>>, FALSE, "", FALSE, <<>>)).out
             \o DirectOut(self, Tail(ns))

\* C28: a wrapped payload {NotificationContainer: {type,
\* PlaySessionStateNotification: n or [n, ...]}} makes the instance emit what
\* the direct payloads {PlaySessionStateNotification: n} of its notifications
\* emit, one event per element and in sequence order, whatever the
\* container's type is.
C28_ShapeIndependent ==
    [][ (lastOp' = "message" /\ IsWrapped(dispatched'))
          => this'.out = DirectOut(Begin, dispatched'.pssn) ]_vars

\* C28's case: a container of a type other than 'playing' carried two
\* notifications and two different events were emitted, in their order
C28_Witness ==
    /\ lastOp = "message"
    /\ IsWrapped(dispatched)
    /\ dispatched.ctype = "timeline"
    /\ dispatched.isArray
    /\ Len(dispatched.pssn) = 2
    /\ Len(this.out) = 2
    /\ this.out[1].ev = "session:paused"
    /\ this.out[1].payload = dispatched.pssn[1]
    /\ this.out[2].ev = "session:playing"
    /\ this.out[2].payload = dispatched.pssn[2]

\* a message with empty data, with data that does not parse, or with data of
\* neither shape (no key at all, or a container without notifications)
IsMalformed(event) ==
    \/ event.kind \in {"empty", "garbage"}
    \/ /\ event.kind = "json"
       /\ event.direct = <<>>
       /\ ~event.isArray
       /\ event.pssn = <<>>

\* C29: an inbound message with empty data, unparseable data or data of
\* neither shape emits nothing (no session event, no 'connection:error'),
\* leaves the state, reconnectAttempts, lastError, the transport and the
\* reconnect timers as they are, and still records the last-event time and
\* arms the heartbeat timer.
C29_MalformedIsDropped ==
    [][ (lastOp' = "message" /\ IsMalformed(dispatched'))
          => /\ this'.out = <<>>
             /\ this'.state = this.state
             /\ this'.reconnectAttempts = this.reconnectAttempts
             /\ this'.lastError = this.lastError
             /\ this'.eventSource = this.eventSource
             /\ ReconnectPending(this') = ReconnectPending(this)
             /\ this'.lastEventTime = "set"
             /\ this'.heartbeatTimer = "armed" ]_vars

\* C29's case: an unparseable message arrived on an open connection, which is
\* as it was
C29_Witness ==
    /\ lastOp = "message"
    /\ dispatched.kind = "garbage"
    /\ this.state = "connected"
    /\ this.eventSource = "OPEN"
    /\ this.lastError = "null"
    /\ this.out = <<>>
    /\ this.heartbeatTimer = "armed"

\* the values the 'connection:state' notifications of a log carry, in order
StatesEmitted(log) ==
    LET es == SelectSeq(log, LAMBDA e : e.ev = "connection:state")
    IN  [i \in 1..Len(es) |-> es[i].arg]

\* C30: a 'connection:state' notification is emitted exactly when the state
\* changes and carries the new value: the values a step emits are the
\* successive distinct states the connection goes through in it, ending in
\* the state it is left in, and a step that does not change the state emits
\* none.
C30_StateChangeNotified ==
    [][ LET emitted == StatesEmitted(this'.out)
        IN  /\ emitted = <<>> => this'.state = this.state
            /\ emitted # <<>>
                  => /\ emitted[1] # this.state
                     /\ emitted[Len(emitted)] = this'.state
                     /\ \A i \in 1..(Len(emitted) - 1) : emitted[i] # emitted[i + 1]
            /\ this'.state = this.state
                  => (emitted = <<>> \/ Len(emitted) >= 2) ]_vars

\* C30's case: a connect() on an invalid URL went through 'connecting' to
\* 'reconnecting' and both were notified, in that order
C30_Witness ==
    /\ lastOp = "connect"
    /\ StatesEmitted(this.out) = <<"connecting", "reconnecting">>
    /\ this.state = "reconnecting"

(***************************************************************************)
(* Properties of the import queue.                                         *)
(***************************************************************************)

\* C5: at every moment each server has at most one import job waiting,
\* active or delayed, also when two enqueueImport calls for it overlap.
C5_OneJobInFlightPerServer ==
    \A serverId \in Servers : Cardinality(InFlight(queue, serverId)) <= 1

\* C6: an enqueueImport call whose look-up finds a job of the server waiting,
\* active or delayed throws and leaves the queue as it is; a call goes on past
\* the look-up only when the server has no such job (none yet, or all of them
\* completed or failed for good), and then it adds exactly one waiting job for
\* that server and returns its new id.
C6_EnqueueRejectsWhileInFlight ==
    [][ /\ \A c \in Callers :
              (callers[c].pc = "idle" /\ callers'[c].pc = "adding")
                  => InFlight(queue, callers'[c].serverId) = {}
        /\ outcome'.kind = "thrown"
              => /\ lastOp' = "enqueueImport"
                 /\ InFlight(queue, outcome'.serverId) # {}
                 /\ outcome'.jobId \in InFlight(queue, outcome'.serverId)
                 /\ queue' = queue
        /\ (lastOp' = "enqueueImport" /\ outcome'.kind # "thrown")
              => \E c \in Callers : callers[c].pc = "idle" /\ callers'[c].pc = "adding"
        /\ outcome'.kind = "returned"
              => /\ Len(queue') = Len(queue) + 1
                 /\ SubSeq(queue', 1, Len(queue)) = queue
                 /\ outcome'.jobId = Len(queue')
                 /\ \A j \in 1..Len(queue) : queue[j].id # outcome'.jobId
                 /\ queue'[Len(queue')].id = outcome'.jobId
                 /\ queue'[Len(queue')].state = "waiting"
                 /\ queue'[Len(queue')].data.serverId = outcome'.serverId ]_vars

\* C6's case: enqueueImport returned a new job for a server whose earlier job
\* has completed or failed for good
C6_Witness ==
    /\ outcome.kind = "returned"
    /\ \E j \in 1..Len(queue) :
          /\ j < outcome.jobId
          /\ queue[j].data.serverId = outcome.serverId
          /\ queue[j].state \in {"completed", "failed"}
    /\ Cardinality(InFlight(queue, outcome.serverId)) = 1

\* the dead-letter entries made for a job
DeadLetters(job) == SelectSeq(dlq, LAMBDA e : e.id = <<"dlq-", job.id>>)

\* C7: a job is executed at most ATTEMPTS (3) times, waits delayed between
\* failed attempts, and once its last attempt has failed it has exactly one
\* dead-letter entry, carrying the job's data (type, serverId, userId,
\* checkpoint); before that it has none.
C7_ExhaustedJobDeadLettered ==
    \A j \in 1..Len(queue) :
        LET job == queue[j]
        IN  /\ job.attemptsMade <= ATTEMPTS
            /\ job.state = "delayed" => job.attemptsMade \in 1..(ATTEMPTS - 1)
            /\ job.state = "failed"
                  => /\ job.attemptsMade = ATTEMPTS
                     /\ Len(DeadLetters(job)) = 1
                     /\ DeadLetters(job)[1].data = job.data
                     /\ job.data = ImportJobData(job.data.serverId, job.data.userId)
            /\ job.state \notin {"failed", "removed"} => DeadLetters(job) = <<>>
            /\ Len(DeadLetters(job)) <= 1

\* C7's case: a job failed its third attempt and is dead-lettered
C7_Witness ==
    \E j \in 1..Len(queue) :
        /\ queue[j].state = "failed"
        /\ queue[j].attemptsMade = ATTEMPTS
        /\ Len(DeadLetters(queue[j])) = 1

\* C8: every failed attempt of a job publishes one snapshot with status
\* 'error', a reason and the job's id, whether or not attempts remain.
C8_EveryFailedAttemptNotified ==
    [][ \A j \in 1..Len(queue) :
          queue'[j].attemptsMade = queue[j].attemptsMade + 1
              => /\ Len(channel') = 1
                 /\ channel'[1].status = "error"
                 /\ channel'[1].jobId = queue[j].id
                 /\ channel'[1].message[1] = "Import failed: "
                 /\ channel'[1].message[2] # "" ]_vars

\* C8's case: a failed attempt with retries left, not dead-lettered, notified
C8_Witness ==
    /\ lastOp = "worker:failed"
    /\ dlq = <<>>
    /\ \E j \in 1..Len(queue) :
          /\ queue[j].state = "delayed"
          /\ channel # <<>>
          /\ channel[1].jobId = j
          /\ channel[1].status = "error"

C16_OneActiveJob ==
    Cardinality({j \in 1..Len(queue) : queue[j].state = "active"}) <= 1

\* C16's case: one job is active while another one waits
C16_Witness ==
    \E j, k \in 1..Len(queue) :
        /\ queue[j].state = "active"
        /\ queue[k].state = "waiting"


(***************************************************************************)
(* Properties of the history import.                                       *)
(***************************************************************************)

\* the rows of the table that carry a (serverId, externalSessionId) pair
RowsWith(serverId, reference_id) ==
    { id \in DOMAIN sessions : /\ sessions[id].serverId = serverId
                               /\ sessions[id].externalSessionId = reference_id }

\* C4: for every server and every external reference id the sessions table
\* holds at most one row with that (serverId, externalSessionId), after any
\* sequence of import runs (complete, aborted by a throw, repeated); no
\* uniqueness constraint of the table is used.
C4_OneRowPerReference ==
    \A serverId \in Servers, reference_id \in Refs :
        Cardinality(RowsWith(serverId, reference_id)) <= 1

\* C4's case: a later run meets a reference an earlier run stored (the
\* upstream history has no reference twice) and the table holds it once
C4_Witness ==
    /\ lastOp = "import:record"
    /\ imp.path = "byRef"
    /\ \A i, j \in 1..Len(upstream) :
          upstream[i].reference_id = upstream[j].reference_id => i = j
    /\ \E reference_id \in Refs :
          Cardinality(RowsWith(imp.serverId, reference_id)) = 1

\* C17: importing a record whose reference id the server already has inserts
\* nothing and sets that row's stoppedAt, durationMs and progressMs from the
\* record, leaving every other row and column alone; and importing again what
\* an earlier run inserted, with the upstream record unchanged, leaves the
\* table as it was (two runs give the same rows as one).
C17_ReimportChangesNothing ==
    [][ (lastOp' = "import:record" /\ imp'.path = "byRef")
          => LET record == imp.records[imp.idx]
                 userId == userMapGet(imp.serverId, record.user_id)
                 ids    == RowsWith(imp.serverId, record.reference_id)
             IN  /\ \E id \in ids :
                       sessions' = [sessions EXCEPT
                           ![id].stoppedAt = Date(record.stopped),
                           ![id].durationMs = Num(record.duration * 1000),
                           ![id].progressMs = sessions'[id].progressMs]
                 /\ \A id \in ids :
                       <<sessions[id]>> = insert(<<>>, imp.serverId, userId, record)
                           => sessions' = sessions ]_vars

\* the rows with the record's (server, user, rating key, start time)
RowsAt(serverId, userId, record) ==
    { id \in DOMAIN sessions : /\ sessions[id].serverId = serverId
                               /\ sessions[id].userId = userId
                               /\ sessions[id].ratingKey = record.rating_key
                               /\ sessions[id].startedAt = Date(record.started) }

\* C18: a record of a known user whose reference id the server has no row of,
\* while a row has its (server, user, rating key, start time), is not
\* inserted: unless the step faults, one such row receives the record's
\* reference id, stoppedAt and durationMs and nothing else changes; and only
\* such a record is treated this way.
C18_TimeMatchBackfills ==
    [][ lastOp' = "import:record"
          => LET record == imp.records[imp.idx]
                 userId == userMapGet(imp.serverId, record.user_id)
                 match  == /\ userId # "undefined"
                           /\ RowsWith(imp.serverId, record.reference_id) = {}
                           /\ RowsAt(imp.serverId, userId, record) # {}
             IN  /\ match => /\ Len(sessions') = Len(sessions)
                             /\ imp'.path \in {"byTime", "error"}
                             /\ imp'.path = "error" => sessions' = sessions
                 /\ imp'.path = "byTime"
                       => /\ match
                          /\ \E id \in RowsAt(imp.serverId, userId, record) :
                                sessions' = [sessions EXCEPT
                                    ![id].externalSessionId = record.reference_id,
                                    ![id].stoppedAt = Date(record.stopped),
                                    ![id].durationMs = Num(record.duration * 1000)] ]_vars

\* C18's case: a row the tracker stored without a reference has been matched
\* by time and carries the record's reference id now; it is the only row
C18_Witness ==
    /\ lastOp = "import:record"
    /\ imp.path = "byTime"
    /\ Len(sessions) = 1
    /\ sessions[1].externalSessionId \in Refs
    /\ sessions[1].totalDurationMs # Null
    /\ sessions[1].stoppedAt # Null

(***************************************************************************)
(* Properties of the worker running an import.                             *)
(***************************************************************************)

\* C19: importHistory ends with success = false only as its first step, by
\* returning (never throwing), before any session row is read or written;
\* the job of such a run completes in the worker's next step with its
\* attempts counter as it was, stays completed ever after (no retry), and a
\* completed job has no dead-letter entry.
C19_RefusalCompletesJob ==
    [][ /\ (imp'.result.kind = "returned" /\ ~imp'.result.success)
              => /\ lastOp' = "importHistory"
                 /\ imp.pc = "idle"
                 /\ sessions' = sessions
                 /\ queue' = queue
        /\ (imp.result.kind = "returned" /\ ~imp.result.success)
              => /\ sessions' = sessions
                 /\ dlq' = dlq
                 /\ \A j \in 1..Len(queue) :
                       queue[j].state = "active"
                           => \/ queue'[j] = queue[j]
                              \/ queue'[j] = [queue[j] EXCEPT !.state = "completed"]
        /\ \A j \in 1..Len(queue) :
              queue[j].state = "completed"
                  => /\ queue'[j] = queue[j]
                     /\ DeadLetters(queue[j]) = <<>> ]_vars

\* C19's case: the first execution of a job was refused; the job is completed,
\* the failure was published, nothing is dead-lettered, no session exists
C19_Witness ==
    /\ lastOp = "worker:completed"
    /\ channel # <<>>
    /\ channel[1].status = "error"
    /\ \E j \in 1..Len(queue) :
          /\ queue[j].state = "completed"
          /\ queue[j].attemptsMade = 0
    /\ dlq = <<>>
    /\ sessions = <<>>

\* C20: a fault while one record is processed counts one error and one
\* processed record, writes nothing, and the loop goes on with the next
\* record of the page or with the next page; the run neither returns nor
\* throws there and the job stays active.  A run throws only where a page
\* fetch throws, and a job fails only on a run that threw.
C20_RecordFaultDoesNotAbort ==
    [][ /\ (lastOp' = "import:record" /\ imp'.path = "error")
              => /\ imp'.progress.errorRecords = imp.progress.errorRecords + 1
                 /\ imp'.progress.processedRecords = imp.progress.processedRecords + 1
                 /\ imp'.progress.importedRecords = imp.progress.importedRecords
                 /\ imp'.progress.skippedRecords = imp.progress.skippedRecords
                 /\ imp'.errors = imp.errors + 1
                 /\ sessions' = sessions
                 /\ imp'.result.kind = "none"
                 /\ queue' = queue
                 /\ IF imp.idx < Len(imp.records)
                    THEN /\ imp'.pc = "record"
                         /\ imp'.idx = imp.idx + 1
                         /\ imp'.records = imp.records
                         /\ imp'.page = imp.page
                    ELSE /\ imp'.pc = "page"
                         /\ imp'.page = imp.page + 1
        /\ (imp'.result.kind = "thrown" /\ imp.result.kind # "thrown")
              => lastOp' = "import:throw"
        /\ lastOp' = "worker:failed" => imp.result.kind = "thrown" ]_vars

\* C20's case: a record was inserted after an earlier record of the same run
\* had faulted
C20_Witness ==
    /\ lastOp = "import:record"
    /\ imp.path = "insert"
    /\ imp.errors >= 1
    /\ \E j \in 1..Len(queue) : queue[j].state = "active"

\* a counter that is a number in both snapshots has not decreased
NonDecreasing(before, after) ==
    (before.t = "number" /\ after.t = "number") => before.v <= after.v

\* C21: from one snapshot published for a job to the next one, whether the
\* import, the job's final publish or the failure handler publishes it, no
\* record counter (total, processed, imported, updated, skipped, error)
\* decreases.
C21_CountersNeverDecrease ==
    [][ \A counter \in DOMAIN NoProgress :
          NonDecreasing(jobProgress[counter], jobProgress'[counter]) ]_vars

\* a === b of JavaScript on numbers: NaN and undefined equal no number
JSEq(a, b) == a.t = "number" /\ b.t = "number" /\ a.v = b.v

\* C22: every processed record increments exactly one outcome counter,
\* whichever path it takes, and the snapshot published when the job completes
\* has processedRecords = importedRecords + updatedRecords + skippedRecords +
\* errorRecords.
C22_ProcessedIsSumOfOutcomes ==
    [][ /\ lastOp' = "import:record"
              => /\ imp'.progress.processedRecords = imp.progress.processedRecords + 1
                 /\ imp'.progress.importedRecords + imp'.progress.skippedRecords
                        + imp'.progress.errorRecords
                      = imp.progress.importedRecords + imp.progress.skippedRecords
                          + imp.progress.errorRecords + 1
                 /\ imp'.progress.importedRecords >= imp.progress.importedRecords
                 /\ imp'.progress.skippedRecords >= imp.progress.skippedRecords
                 /\ imp'.progress.errorRecords >= imp.progress.errorRecords
        /\ lastOp' = "worker:completed"
              => /\ channel' # <<>>
                 /\ LET final == channel'[Len(channel')]
                    IN  JSEq(final.processedRecords,
                             JSAdd(JSAdd(JSAdd(final.importedRecords,
                                               final.updatedRecords),
                                         final.skippedRecords),
                                   final.errorRecords)) ]_vars

\* C23: for an upstream of T records served in pages of PAGE_SIZE, the last
\* snapshot published for a job whose import ran through has status
\* 'complete', totalPages = ceil(T / PAGE_SIZE) and processedRecords = T.
C23_FinalSnapshotTotals ==
    [][ (lastOp' = "worker:completed" /\ imp.result.success)
          => /\ channel' # <<>>
             /\ LET final == channel'[Len(channel')]
                    T     == Len(upstream)
                IN  /\ final.status = "complete"
                    /\ JSEq(final.totalPages, Num((T + PAGE_SIZE - 1) \div PAGE_SIZE))
                    /\ JSEq(final.processedRecords, Num(T)) ]_vars

\* C24: while an import processes records, never more than PROGRESS_EVERY
\* records have been processed since the last publish, whatever their
\* outcomes; and the head of each page, each change of status and the
\* completion publish the progress.
C24_PublishedEveryFewRecords ==
    /\ [][ /\ lastOp' = "import:page"
                 => /\ channel' # <<>>
                    /\ channel'[1].status = "processing"
                    /\ channel'[1].currentPage = imp.page + 1
           /\ (imp.pc # "idle" /\ imp'.pc # "idle"
                 /\ imp'.progress.status # imp.progress.status)
                 => /\ channel' # <<>>
                    /\ channel'[1].status = imp'.progress.status
           /\ lastOp' = "import:complete"
                 => /\ channel' # <<>>
                    /\ channel'[Len(channel')].status = "complete" ]_vars
    /\ [](imp.pc \in {"page", "record"}
            => imp.progress.processedRecords - jobProgress.processedRecords.v
                  <= PROGRESS_EVERY)

\* the steps of a running importHistory call
ImportSteps ==
    {"importHistory", "import:total", "import:page", "import:record",
     "import:complete", "import:throw"}

\* C25: every step of an import that publishes progress while its job is
\* active extends that job's lock by 5 minutes.
C25_PublishExtendsLock ==
    [][ \A j \in 1..Len(queue) :
          (queue[j].state = "active" /\ lastOp' \in ImportSteps /\ channel' # <<>>)
              => queue'[j].lockMs >= queue[j].lockMs + 5 * 60 * 1000 ]_vars

(***************************************************************************)
(* Properties of the page loop.                                            *)
(***************************************************************************)

\* the page requests a run announcing `total` records makes
PagesOf(total) == (total + PAGE_SIZE - 1) \div PAGE_SIZE

\* C31: within one execution of an import, the i-th page request asks for
\* offset (i - 1) * PAGE_SIZE, so pages are requested in ascending order, none
\* skipped and none twice; the records of a page are processed one per step
\* in the order received; and the run completes after exactly
\* ceil(total / PAGE_SIZE) page requests and makes no request beyond them,
\* also when a page returns fewer records than announced or none.
C31_PagesInOrder ==
    /\ [](\A i \in 1..Len(imp.offsets) : imp.offsets[i] = (i - 1) * PAGE_SIZE)
    /\ [][ /\ lastOp' = "import:page"
                 => /\ Len(imp.offsets) < PagesOf(imp.total)
                    /\ Len(imp'.offsets) = Len(imp.offsets) + 1
                    /\ SubSeq(imp'.offsets, 1, Len(imp.offsets)) = imp.offsets
                    /\ imp'.pc = "record"
                          => /\ imp'.idx = 1
                             /\ imp'.records # <<>>
                             /\ \A k \in 1..Len(imp'.records) :
                                   imp'.records[k]
                                     = upstream[imp'.offsets[Len(imp'.offsets)] + k]
           /\ lastOp' = "import:record"
                 => /\ imp'.offsets = imp.offsets
                    /\ imp'.path = "insert"
                          => sessions'[Len(sessions')].externalSessionId
                               = imp.records[imp.idx].reference_id
                    /\ IF imp.idx < Len(imp.records)
                       THEN /\ imp'.pc = "record"
                            /\ imp'.idx = imp.idx + 1
                            /\ imp'.records = imp.records
                       ELSE imp'.pc = "page"
           /\ lastOp' = "import:complete"
                 => Len(imp.offsets) = PagesOf(imp.total) ]_vars

\* C31's case: a run that was announced more than one page completed after
\* its last page had returned no record
C31_Witness ==
    /\ lastOp = "import:complete"
    /\ jobProgress.totalRecords.v > PAGE_SIZE
    /\ jobProgress.processedRecords = Num(PAGE_SIZE)
    /\ Len(upstream) = PAGE_SIZE

(***************************************************************************)
(* Properties of the progress callback.                                    *)
(***************************************************************************)

\* C32: a progress callback whose lock extension is refused only logs it:
\* it does not reject, it publishes its one snapshot, the caller's progress
\* with the job's id, and the job stays active with its attempts counter and
\* its lock as they were, so the import goes on and the job is neither failed
\* nor retried; no callback rejects.
C32_LockFailureIsNotFatal ==
    [][ lastOp' = "onProgress"
          => /\ outcome'.kind # "onProgress:thrown"
             /\ outcome'.kind = "onProgress:warned"
                   => /\ Len(channel') = 1
                      /\ channel'[1].jobId = outcome'.jobId
                      /\ \A field \in DOMAIN imp'.progress :
                            channel'[1][field] = imp'.progress[field]
                      /\ \A j \in 1..Len(queue) :
                            /\ queue'[j].state = queue[j].state
                            /\ queue'[j].attemptsMade = queue[j].attemptsMade
                            /\ queue'[j].lockMs = queue[j].lockMs
                      /\ dlq' = dlq ]_vars

\* C32's case: a callback whose lock extension was refused, after one whose
\* extension went through, published in the middle of the import
C32_Witness ==
    /\ lastOp = "onProgress"
    /\ outcome.kind = "onProgress:warned"
    /\ channel # <<>>
    /\ channel[1].status = "processing"
    /\ channel[1].processedRecords > 0
    /\ \E j \in 1..Len(queue) :
          /\ queue[j].state = "active"
          /\ queue[j].lockMs > 0

(***************************************************************************)
(* Properties of the record loop.                                          *)
(***************************************************************************)

\* C33: a record whose user id the user map of the server does not hold is
\* counted as processed and as skipped, once each, and as neither imported
\* nor errored, in the progress and in the result alike; it takes the path
\* that leaves the iteration before any query, and the sessions table is left
\* as it was.
C33_UnknownUserIsSkipped ==
    [][ ( /\ lastOp' = "import:record"
          /\ userMapGet(imp.serverId, imp.records[imp.idx].user_id) = "undefined" )
          => /\ imp'.path = "unknownUser"
             /\ imp'.progress.processedRecords = imp.progress.processedRecords + 1
             /\ imp'.progress.skippedRecords = imp.progress.skippedRecords + 1
             /\ imp'.progress.errorRecords = imp.progress.errorRecords
             /\ imp'.progress.importedRecords = imp.progress.importedRecords
             /\ imp'.skipped = imp.skipped + 1
             /\ imp'.errors = imp.errors
             /\ imp'.imported = imp.imported
             /\ sessions' = sessions ]_vars

\* C33's case: a record of an unknown user was skipped after a record of a
\* known user had been inserted in the same run
C33_Witness ==
    /\ lastOp = "import:record"
    /\ imp.path = "unknownUser"
    /\ imp.progress.skippedRecords = 1
    /\ imp.progress.importedRecords >= 1
    /\ imp.progress.errorRecords = 0
    /\ sessions # <<>>

(***************************************************************************)
(* Properties of the dead-letter queue.                                    *)
(***************************************************************************)

\* the jobs of the queue a dead-letter entry was made for
JobsOf(entry) == {j \in 1..Len(queue) : entry.id = <<"dlq-", queue[j].id>>}

C35_SnapshotsCarryJobId ==
    [][ \A j \in 1..Len(queue) :
          queue[j].state = "active"
              => \A i \in 1..Len(channel') :
                    /\ "jobId" \in DOMAIN channel'[i]
                    /\ channel'[i].jobId = queue[j].id ]_vars

(***************************************************************************)
(* Properties of the connection manager: transport, timers and the retry  *)
(* counter.                                                                *)
(***************************************************************************)

\* C36: between operations the instance holds a transport object exactly
\* when its state is 'connecting' or 'connected'; in 'disconnected',
\* 'reconnecting' and 'fallback' it holds none.  A step creates at most one
\* transport, and only when the instance held none, so no live transport is
\* replaced without having been closed.
C36_TransportIffConnecting ==
    /\ [](this.eventSource # "null" <=> this.state \in {"connecting", "connected"})
    /\ [][ /\ CountEv(this'.out, "new EventSource") <= 1
           /\ CountEv(this'.out, "new EventSource") = 1 => this.eventSource = "null"
           /\ (this.eventSource # "null" /\ this'.eventSource = "null")
                 => CountEv(this'.out, "close") = 1 ]_vars

\* C36's case: a reconnect timer fired and connect() created a transport on
\* an instance whose transport an error had torn down
C36_Witness ==
    /\ lastOp = "reconnect"
    /\ this.state = "connecting"
    /\ this.eventSource = "CONNECTING"
    /\ this.reconnectAttempts >= 1
    /\ this.lastError # "null"

\* C37: a heartbeat timer is pending only while the instance holds a
\* transport, in state 'connecting' or 'connected': after handleError tore
\* the transport down (state 'reconnecting' or 'fallback') or disconnect()
\* ran, no heartbeat timer is left that can still fire.  (The instance has
\* one heartbeat handle, cleared before each arming, so at most one heartbeat
\* timer is pending.)
C37_HeartbeatOnlyWithTransport ==
    this.heartbeatTimer = "armed"
        => /\ this.eventSource # "null"
           /\ this.state \in {"connecting", "connected"}

\* C38 as stated: reconnectAttempts is always within 0..MAX_RETRIES and is 0
\* whenever the state is 'connected'; a step changes it only by adding 1 in
\* scheduleReconnect or by resetting it to 0 on the transport's open, and a
\* connect() or disconnect() call never changes it.
C38_AttemptsWithinBudget ==
    /\ [](this.reconnectAttempts \in 0..MAX_RETRIES)
    /\ [](this.state = "connected" => this.reconnectAttempts = 0)
    /\ [][ /\ this'.reconnectAttempts # this.reconnectAttempts
                 => \/ /\ this'.reconnectAttempts = this.reconnectAttempts + 1
                       /\ CountEv(this'.out, "setTimeout") = 1
                    \/ /\ this'.reconnectAttempts = 0
                       /\ lastOp' = "onopen"
           /\ lastOp' \in {"connect", "connect:await", "reconnect", "disconnect"}
                 => this'.reconnectAttempts = this.reconnectAttempts ]_vars

\* C38, amended: reconnectAttempts is always within 0..MAX_RETRIES and is 0
\* whenever the state is 'connected'; a step changes it only by adding 1 in
\* the scheduleReconnect of a failure it handled (one 'connection:error', one
\* timer armed, state 'reconnecting') or by resetting it to 0 on the
\* transport's open; disconnect() never changes it, and connect() changes it
\* only when creating the transport throws, which is such a failure.
C38_AttemptsWithinBudgetUnlessFailed ==
    /\ [](this.reconnectAttempts \in 0..MAX_RETRIES)
    /\ [](this.state = "connected" => this.reconnectAttempts = 0)
    /\ [][ /\ this'.reconnectAttempts # this.reconnectAttempts
                 => \/ /\ this'.reconnectAttempts = this.reconnectAttempts + 1
                       /\ CountEv(this'.out, "setTimeout") = 1
                       /\ CountEv(this'.out, "connection:error") = 1
                       /\ this'.state = "reconnecting"
                    \/ /\ this'.reconnectAttempts = 0
                       /\ lastOp' = "onopen"
           /\ lastOp' \in {"disconnect", "connect:await", "message"}
                 => this'.reconnectAttempts = this.reconnectAttempts
           /\ ( /\ lastOp' \in {"connect", "reconnect"}
                /\ CountEv(this'.out, "connection:error") = 0 )
                 => this'.reconnectAttempts = this.reconnectAttempts
           /\ ( /\ CountEv(this'.out, "connection:error") = 1
                /\ this.reconnectAttempts < MAX_RETRIES )
                 => this'.reconnectAttempts = this.reconnectAttempts + 1 ]_vars

\* C38's case: disconnect() ran on an instance that had used up its retry
\* budget and left the counter at MAX_RETRIES
C38_Witness ==
    /\ lastOp = "disconnect"
    /\ this.state = "disconnected"
    /\ this.reconnectAttempts = MAX_RETRIES
    /\ this.lastError # "null"

(***************************************************************************)
(* Properties of a retried import.                                         *)
(***************************************************************************)

\* the record loop over `records` without a fault: the table after it
RECURSIVE importAll(_, _, _)
importAll(table, serverId, records) ==
    IF records = <<>>
    THEN table
    ELSE LET record == Head(records)
             userId == userMapGet(serverId, record.user_id)
             byRef  == existingByRef(table, serverId, record.reference_id)
             byTime == existingByTime(table, serverId, userId,
                                      record.rating_key, Date(record.started))
             after  == IF userId = "undefined" THEN table
                       ELSE IF byRef # {}
                            THEN updateByRef(table, CHOOSE id \in byRef : TRUE, record)
                       ELSE IF byTime # {}
                            THEN updateByTime(table, CHOOSE id \in byTime : TRUE, record)
                       ELSE insert(table, serverId, userId, record)
         IN  importAll(after, serverId, Tail(records))

\* the rows of a table, as a set
Rows(table) == {table[id] : id \in 1..Len(table)}

\* the records of a history that are of users of the server differ pairwise
\* in reference id and in start time: each stands for a session of its own
OneSessionEach(serverId, records) ==
    \A a, b \in 1..Len(records) :
        ( /\ a # b
          /\ userMapGet(serverId, records[a].user_id) # "undefined"
          /\ userMapGet(serverId, records[b].user_id) # "undefined" )
        => /\ records[a].reference_id # records[b].reference_id
           /\ records[a].started # records[b].started

\* C39: when a job whose earlier execution was aborted by a throwing page
\* fetch is retried and its import runs through without a record fault, over
\* an upstream history in which each record is a session of its own, the
\* sessions table holds the rows one fault-free run over the same history
\* produces from an empty table: none twice, none missing, none different.
C39_RetryEqualsSingleRun ==
    [][ \A j \in 1..Len(queue) :
          ( /\ lastOp' = "worker:completed"
            /\ queue[j].state = "active"
            /\ queue[j].attemptsMade >= 1
            /\ imp.result.success
            /\ imp.result.errors = 0
            /\ OneSessionEach(queue[j].data.serverId, upstream) )
          => /\ Rows(sessions) = Rows(importAll(<<>>, queue[j].data.serverId, upstream))
             /\ Len(sessions) = Len(importAll(<<>>, queue[j].data.serverId, upstream)) ]_vars

(***************************************************************************)
(* Progress of the import queue under a fair worker.                       *)
(***************************************************************************)

\* a job that will not run again: completed, failed after its last allowed
\* attempt, or removed by cancelImport
Terminal(job) ==
    \/ job.state = "completed"
    \/ job.state = "failed" /\ job.attemptsMade >= job.opts.attempts
    \/ job.state = "removed"

\* C40: under a fair worker every job of the queue eventually is completed,
\* failed after its last allowed attempt, or removed by a cancel: none stays
\* waiting, active or delayed forever; a job fails for good only after its
\* last allowed attempt; and a completed, failed or removed job never becomes
\* waiting, active or delayed again.
C40_EveryJobTerminates ==
    /\ \A j \in 1..MaxJobs :
          (j \in 1..Len(queue)) ~> (j \in 1..Len(queue) /\ Terminal(queue[j]))
    /\ [](\A j \in 1..Len(queue) :
            queue[j].state = "failed" => queue[j].attemptsMade >= queue[j].opts.attempts)
    /\ [][ \A j \in 1..Len(queue) :
             queue[j].state \in {"completed", "failed", "removed"}
                 => queue'[j].state \in {"completed", "failed", "removed"} ]_vars

\* C40's case: a job that was retried has completed while the other one,
\* which waited for the worker meanwhile, has failed its last attempt
C40_Witness ==
    \E j, k \in 1..Len(queue) :
        /\ queue[j].state = "completed"
        /\ queue[j].attemptsMade >= 1
        /\ queue[k].state = "failed"
        /\ queue[k].attemptsMade >= queue[k].opts.attempts

====
